---- MODULE Spec2Model ----
(***************************************************************************)
(* Verification model of the MoniTe automation and health-monitoring core  *)
(* (backend/app): the Telegram alert dispatcher with its cooldown map, the *)
(* health monitor with its 5-in-a-row offline rule, the action execution   *)
(* pipeline with the scheduler's retry loop, the rule-job lifecycle, the   *)
(* daily summary job, the trigger engine, and startup and shutdown.        *)
(***************************************************************************)
EXTENDS Naturals, Integers, Sequences, FiniteSets, TLC

(* ------------------------------------------------------------------ *)
(* Bounds of the model                                                  *)
(* ------------------------------------------------------------------ *)
\* last value of the clock
MaxTime == 1
\* number of concurrently running jobs that call send_alert (SpecSend)
NumCallers == 2
\* number of send_alert calls recorded in the log `sends`
MaxSends == 3
\* number of health checks of one host (rows of host_health)
MaxChecks == 11
\* largest stored AutomationRule.max_attempts
MaxAttempts == 3
\* number of firings of one rule's job
MaxFirings == 2
\* number of manual (API) executions
MaxManual == 1
\* concurrent update_rule requests, and requests in all
NumConns == 2
MaxUpdates == 3
\* largest severity threshold, and largest reading of data (MB) or validity (days)
MaxThreshold == 2
MaxReading == 3
\* number of runs of the health job
MaxBatches == 2
\* number of trigger firings of all jobs together
MaxTriggers == 4
\* number of restarts of the process, and of health checks of a host in the
\* specification with restarts
MaxRestarts == 1
MaxRestartChecks == 6

(* ------------------------------------------------------------------ *)
(* Program constants                                                    *)
(* ------------------------------------------------------------------ *)
\* settings.telegram_cooldown_seconds, in clock ticks
CooldownWindow == 1
\* dict.get(key) of a key that has no entry (Python None)
NoEntry == -1

Callers == 1..NumCallers
\* ids of the rows of table hosts
Hosts == {1}
\* ids of the hosts of the health job specification
AllHosts == {1, 2}
\* Host.router_type values of the stored hosts (a free string column)
RouterTypes == {"MIKROTIK_ROUTEROS_REST", "HUAWEI"}
\* (host_id, alert_key) pairs used by the jobs of SpecSend; host_id 0 is the
\* fleet-wide scope
SendKeys == {<<0, "daily_summary">>, <<1, "no_response">>}
\* (host_id, alert_key) pairs of the health monitor
HealthKeys == AllHosts \X {"host_online", "host_offline_confirmed"}
\* ids of the rows of table automation_rules
Rules == {1}
\* (host_id, alert_key) pairs of the action pipeline and of the rule jobs
RunKeys == Hosts \X {"no_response", "auto_1_success", "auto_1_fail",
                      "ussd_latest", "low_balance",
                      "sev_critico", "sev_alta", "sev_media"}
AlertKeys == SendKeys \cup HealthKeys \cup RunKeys

VARIABLES
    now,               \* datetime.utcnow(), in ticks
    LAST_ALERT_TIMES,  \* telegram._LAST_ALERT_TIMES: key -> time of last send
    sendSt,            \* per job: the send_alert call it is suspended in
    sends,             \* log of the send_alert calls and their Notifier outcome
    hosts,             \* table hosts: router_type, notify_enabled, last_status
    host_health,       \* table host_health per host, oldest row first; each row
                       \* also notes the notification flag at its check, the
                       \* alert the check dispatched and whether send_alert
                       \* called the Notifier for it
    health_raised,     \* the last check_host call raised out of the health job
    batch,             \* the run of the health job (check_all_hosts) in progress
    rules,             \* table automation_rules
    rule_run,          \* per rule: the running instance of its job (_run_rule)
    action_runs,       \* table action_runs, oldest row first; each row also notes
                       \* the rule (0: manual), firing and attempt that wrote it
    alerts,            \* log of the send_alert calls of the pipeline and rule jobs
    run_calls,         \* number of execute_and_record invocations that have ended
    manual_calls,      \* number of manual executions requested
    jobs,              \* the scheduler's job store: rules r whose job automation-r
                       \* is registered
    req,               \* per operator connection: the update_rule request it is
                       \* suspended in
    disable_done,      \* per rule: a request that disabled it has completed and
                       \* no later request has enabled it again
    n_updates,         \* number of update_rule requests received
    sev,               \* one call of evaluate_severity: its arguments and result
    telegram_schedule, \* app_settings row telegram_daily_summary_schedule
    summary_trigger,   \* the trigger of the job daily_summary in the job store
    sched_req,         \* per operator connection: the update_schedule request
                       \* it is suspended in
    scheduler_state,   \* AsyncIOScheduler.state: stopped, running or shutdown
    db_engine,         \* database.engine: open or disposed
    life,              \* the position of main.lifespan and of SchedulerService.start
    inst,              \* per job id: the running instances of the job; each also
                       \* notes the rule jobs suspended in a retry delay since it
                       \* started, the jobs that ran to completion during its own
                       \* retry delay, and the jobs that had failed when it started
    triggers,          \* per job id: firings of its trigger, and those refused
    failed,            \* ids of the jobs an instance of which raised
    pipe,              \* one invocation of execute_and_record: its arguments,
                       \* the driver's answer, and how far it has come
    boot               \* the starts of the process after the first, and per host
                       \* the number of host_health rows stored at the last start

sendVars == <<sendSt, sends>>
healthVars == <<host_health, health_raised, batch>>
runVars == <<rule_run, action_runs, alerts, run_calls, manual_calls>>
schedVars == <<jobs, req, disable_done, n_updates>>
sevVars == <<sev>>
summaryVars == <<telegram_schedule, summary_trigger, sched_req>>
\* the daily summary schedule and the life cycle of the service
engineVars == <<scheduler_state, inst, triggers, failed>>
lifeVars == <<db_engine, life>>
pipeVars == <<pipe>>
bootVars == <<boot>>
sysVars == <<summaryVars, engineVars, lifeVars, pipeVars, bootVars>>
\* what the alert dispatcher's own steps leave alone
nonSendVars == <<hosts, healthVars, rules, runVars, schedVars, sevVars, sysVars>>
\* what the health monitor's steps leave alone
nonHealthVars == <<sendVars, rules, runVars, schedVars, sevVars, sysVars>>
\* what the steps of the pipeline and of the rule jobs leave alone
nonRunVars == <<sendVars, hosts, healthVars, sevVars, sysVars>>
vars == <<now, LAST_ALERT_TIMES, sendSt, sends, hosts, host_health, health_raised, batch,
          rules, rule_run, action_runs, alerts, run_calls, manual_calls,
          jobs, req, disable_done, n_updates, sev, sysVars>>

\* the names of the severity bands, in the order evaluate_severity tests them
BandNames == <<"critical", "high", "medium">>
\* the value evaluate_severity returns for each band (lines 26, 33, 40;
\* the first written without its accent)
BandLabel == [critical |-> "CRITICO", high |-> "ALTA", medium |-> "MEDIA"]

\* no call of evaluate_severity: some stored thresholds and no reading
NoSev == [thresholds |-> [critical |-> [days |-> 0, data_mb |-> 0],
                          high |-> [days |-> 1, data_mb |-> 1],
                          medium |-> [days |-> 2, data_mb |-> 2]],
          datos_mb |-> NoEntry, validos_dias |-> NoEntry, result |-> "unset"]
SevQuiet == sev = NoSev

\* app_settings.DEFAULT_SCHEDULE (lines 12-17)
DEFAULT_SCHEDULE == [enabled |-> TRUE, hour |-> 9, minute |-> 0, timezone |-> "UTC"]
\* no job daily_summary in the job store
NoTrigger == [hour |-> NoEntry, minute |-> NoEntry, timezone |-> "None"]
\* reschedule_daily_summary line 101: CronTrigger(hour, minute, timezone)
CronTrigger(sched) ==
    [hour |-> sched.hour, minute |-> sched.minute, timezone |-> sched.timezone]
\* no update_schedule request in progress on a connection
\* (was: the stored schedule and the trigger of the job when the request
\* arrived)
NoSchedReq == [pc |-> "idle", sched |-> DEFAULT_SCHEDULE,
               was |-> [schedule |-> DEFAULT_SCHEDULE, trigger |-> NoTrigger]]
\* the daily summary of a service that started with the default schedule
\* and has received no update_schedule request
SummaryQuiet ==
    /\ telegram_schedule = DEFAULT_SCHEDULE
    /\ summary_trigger = CronTrigger(DEFAULT_SCHEDULE)
    /\ sched_req = [c \in 1..NumConns |-> NoSchedReq]
\* the ids of all jobs: add_job line 137, start line 55, line 112
EngineJobs == {"automation-1", "automation-2", "health_check", "daily_summary"}
RuleJobs == {"automation-1", "automation-2"}
\* main.lifespan suspended at its yield (line 40): the application serves
Serving == [phase |-> "serving", todo |-> <<>>, rule |-> 0, log |-> <<>>,
            start_raised |-> FALSE]
\* a running scheduler with no instance of any job, no trigger fired yet
EngineQuiet ==
    /\ scheduler_state = "running"
    /\ inst = [id \in EngineJobs |-> <<>>]
    /\ triggers = [id \in EngineJobs |-> [fired |-> 0, refused |-> 0]]
    /\ failed = {}
LifeQuiet == db_engine = "open" /\ life = Serving
\* a USSD answer of the modem: whether the log holds a message at all, the
\* data and days it reports (NoEntry: not in the text), and whether the
\* text says the balance is insufficient
NoUssd == [latest |-> FALSE, datos_mb |-> NoEntry, validos_dias |-> NoEntry,
           insuf |-> FALSE]
\* no invocation of execute_and_record
\* what the pipeline holds in response_parsed
NoParsed == [ussd_latest |-> FALSE, ok_parse |-> FALSE,
             datos_mb |-> NoEntry, validos_dias |-> NoEntry]
NoPipe == [pc |-> "idle", host |-> 1, action_key |-> "CONSULTAR_SALDO",
           attempt |-> 1, max_attempts |-> 1, telegram_enabled |-> TRUE,
           ussd |-> NoUssd, status |-> "unset", parsed |-> NoParsed]
PipeQuiet == pipe = NoPipe
\* a process started once, on an empty host_health table
NoBoot == [n |-> 0, rows |-> [h \in AllHosts |-> 0]]
BootQuiet == boot = NoBoot
SysQuiet == SummaryQuiet /\ EngineQuiet /\ LifeQuiet /\ PipeQuiet /\ BootQuiet

Idle == [pc |-> "idle", key |-> <<0, "daily_summary">>, at |-> 0, idx |-> 0]

(* ------------------------------------------------------------------ *)
(* telegram.send_alert                                                  *)
(* ------------------------------------------------------------------ *)
\* line 117: last_sent and now - last_sent < cooldown
InCooldown(last_sent, t) == last_sent # NoEntry /\ t - last_sent < CooldownWindow

\* lines 113-126: read the clock and the entry; return when in cooldown,
\* otherwise call _post_message and suspend on it
SendAlertBegin(c, k) ==
    /\ sendSt[c].pc = "idle"
    /\ Len(sends) < MaxSends
    /\ IF InCooldown(LAST_ALERT_TIMES[k], now)
       THEN /\ sends' = Append(sends, [key |-> k, at |-> now, by |-> c,
                                         seen |-> LAST_ALERT_TIMES[k], res |-> "suppressed",
                                         ret |-> "returned"])
            /\ UNCHANGED sendSt
       ELSE /\ sends' = Append(sends, [key |-> k, at |-> now, by |-> c,
                                         seen |-> LAST_ALERT_TIMES[k], res |-> "pending",
                                         ret |-> "pending"])
            /\ sendSt' = [sendSt EXCEPT ![c] =
                            [pc |-> "posting", key |-> k, at |-> now, idx |-> Len(sends) + 1]]
    /\ UNCHANGED <<now, LAST_ALERT_TIMES, nonSendVars>>

\* the entry written when a post fails: none (line 129-130 only logs)
RaisedEntryBug(c) == [LAST_ALERT_TIMES EXCEPT ![sendSt[c].key] = sendSt[c].at]
EntryAfterRaise(c) == LAST_ALERT_TIMES

\* the entry written after a successful post, were the map keyed by host_id alone
EntryPerScope(c) ==
    [k \in AlertKeys |-> IF k[1] = sendSt[c].key[1] THEN sendSt[c].at
                          ELSE LAST_ALERT_TIMES[k]]

\* the entry written after a successful post (line 127: _LAST_ALERT_TIMES[key] = now,
\* `now` being the time read at line 113)
EntryAfterPost(c) == [LAST_ALERT_TIMES EXCEPT ![sendSt[c].key] = sendSt[c].at]

\* lines 126-128: _post_message returned
SendAlertPosted(c) ==
    /\ sendSt[c].pc = "posting"
    /\ LAST_ALERT_TIMES' = EntryAfterPost(c)
    /\ sends' = [sends EXCEPT ![sendSt[c].idx].res = "ok",
                               ![sendSt[c].idx].ret = "returned"]
    /\ sendSt' = [sendSt EXCEPT ![c] = Idle]
    /\ UNCHANGED <<now, nonSendVars>>

\* how send_alert ends when _post_message raised: lines 129-130 catch Exception,
\* log it and fall off the end of the function
RaisePropagates == "exception"
ReturnAfterRaise == "returned"

\* lines 129-130: _post_message raised; the exception is logged and swallowed
SendAlertRaised(c) ==
    /\ sendSt[c].pc = "posting"
    /\ LAST_ALERT_TIMES' = EntryAfterRaise(c)
    /\ sends' = [sends EXCEPT ![sendSt[c].idx].res = "raised",
                               ![sendSt[c].idx].ret = ReturnAfterRaise]
    /\ sendSt' = [sendSt EXCEPT ![c] = Idle]
    /\ UNCHANGED <<now, nonSendVars>>

\* the clock advances
Tick ==
    /\ now < MaxTime
    /\ now' = now + 1
    /\ UNCHANGED <<LAST_ALERT_TIMES, sendVars, nonSendVars>>

\* the process has just started: empty cooldown map, no call in progress
InitSend ==
    /\ now = 0
    /\ LAST_ALERT_TIMES = [k \in AlertKeys |-> NoEntry]
    /\ sendSt = [c \in Callers |-> Idle]
    /\ sends = <<>>

\* no run of the health job yet
NoBatch == [pc |-> "idle", round |-> 0, todo |-> <<>>,
            calls |-> [h \in AllHosts |-> 0], saved |-> <<>>]

\* a stored host that has never been checked (models.Host defaults)
NewHost(rt, notify) ==
    [router_type |-> rt, enabled |-> TRUE, notify_enabled |-> notify, last_status |-> "None",
     exists |-> TRUE]

\* a stored rule on host 1 (models.AutomationRule); action CONSULTAR_SALDO,
\* its schedule (a string) as the sequence of its blank-separated fields
NewRule(enabled, retry, max_attempts, telegram) ==
    [host_id |-> 1, action_key |-> "CONSULTAR_SALDO", enabled |-> enabled,
     retry_enabled |-> retry, max_attempts |-> max_attempts, telegram_enabled |-> telegram,
     schedule |-> <<"*/10", "*", "*", "*", "*">>, exists |-> TRUE]

\* no instance of a rule's job is running
NoRun == [pc |-> "idle", firing |-> 0, attempt |-> 0, attempts |-> 0,
          telegram |-> FALSE, returned |-> 0, last |-> "None", chk |-> FALSE]

\* ids of the rules of the job registry specification
AllRules == {1, 2}
\* add_job line 137: job_id = f"automation-{rule_id}"
JobId == [r \in AllRules |-> IF r = 1 THEN "automation-1" ELSE "automation-2"]
\* scheduler.start lines 46-71: the ids of the health check job and of the
\* daily summary job
SystemJobs == {"health_check", "daily_summary"}

\* the operator connections on which update_rule requests arrive
Conns == 1..NumConns

\* no update_rule request in progress
NoReq == [pc |-> "idle", rule |-> 1, host |-> 1, enabled |-> FALSE, loaded |-> FALSE,
          stands |-> FALSE]

\* the scheduler of a specification in which no rule is updated: the jobs of
\* the enabled rules, as load_jobs registers them at startup
SchedQuiet ==
    /\ jobs = SystemJobs \cup {JobId[r] : r \in {q \in Rules : rules[q].enabled}}
    /\ req = [c \in Conns |-> NoReq]
    /\ disable_done = [r \in Rules |-> FALSE]
    /\ n_updates = 0

\* the rules table and the pipeline of a specification in which no rule job
\* and no manual execution runs
RunQuiet ==
    /\ rules = [r \in Rules |-> NewRule(FALSE, TRUE, 2, TRUE)]
    /\ rule_run = [r \in Rules |-> NoRun]
    /\ action_runs = <<>>
    /\ alerts = <<>>
    /\ run_calls = 0
    /\ manual_calls = 0

\* hosts of any stored router type and notification flag, none checked yet
InitHealth ==
    /\ hosts \in [Hosts -> {NewHost(rt, n) : rt \in RouterTypes, n \in BOOLEAN}]
    /\ host_health = [h \in Hosts |-> <<>>]
    /\ health_raised = FALSE
    /\ batch = NoBatch

\* the hosts table of a specification in which no health check runs
HealthQuiet ==
    /\ hosts = [h \in Hosts |-> NewHost("MIKROTIK_ROUTEROS_REST", TRUE)]
    /\ host_health = [h \in Hosts |-> <<>>]
    /\ health_raised = FALSE
    /\ batch = NoBatch

NextSend ==
    \/ \E c \in Callers, k \in SendKeys : SendAlertBegin(c, k)
    \/ \E c \in Callers : SendAlertPosted(c)
    \/ \E c \in Callers : SendAlertRaised(c)
    \/ Tick

\* the alert dispatcher called by concurrently running jobs
InitOfSend == InitSend /\ HealthQuiet /\ RunQuiet /\ SchedQuiet /\ SevQuiet /\ SysQuiet
SpecSend == InitOfSend /\ [][NextSend]_vars

(* ------------------------------------------------------------------ *)
(* Properties of the alert dispatcher                                   *)
(* ------------------------------------------------------------------ *)
\* the send_alert calls that called the Notifier (_post_message)
NotifierCalls == {i \in 1..Len(sends) : sends[i].res # "suppressed"}
\* the send_alert calls whose message the Notifier delivered
Delivered == {i \in 1..Len(sends) : sends[i].res = "ok"}
\* the step records a new send_alert call
SendCalled == Len(sends') = Len(sends) + 1
NewSend == sends'[Len(sends')]

\* C1: under any interleaving of concurrent send calls, no two Notifier
\* posts for the same (scopeId, alertKind) key occur less than the cooldown
\* window apart (stated here for the delivered posts only).
C1_NoTwoPostsWithinCooldown ==
    \A i, j \in Delivered :
        (i < j /\ sends[i].key = sends[j].key)
            => sends[j].at - sends[i].at >= CooldownWindow

\* C2: after a successful send at time t, every further send call for that
\* key before t + cooldownWindow makes no Notifier call and leaves the entry
\* untouched; the first send call at or after t + cooldownWindow calls the
\* Notifier.
C2_SuppressedWithinWindow ==
    [][SendCalled =>
        LET recent == \E i \in Delivered :
                          /\ sends[i].key = NewSend.key
                          /\ NewSend.at < sends[i].at + CooldownWindow
        IN  /\ recent => /\ NewSend.res = "suppressed"
                         /\ LAST_ALERT_TIMES' = LAST_ALERT_TIMES
            /\ ~recent => NewSend.res = "pending"
      ]_vars

\* a _post_message call of some job ends by raising in this step
PostRaised(c) == sendSt[c].pc = "posting" /\ sendSt'[c].pc = "idle"
                 /\ sends'[sendSt[c].idx].res = "raised"

\* C3: when the Notifier raises during a send for key k the cooldown entry
\* of k (the whole map) is left as it was, and a following send call for k
\* that finds the entry as the failed call found it calls the Notifier again.
C3_FailedSendKeepsCooldown ==
    [][/\ \A c \in Callers : PostRaised(c) => LAST_ALERT_TIMES' = LAST_ALERT_TIMES
       /\ SendCalled =>
            ((\E i \in 1..Len(sends) :
                 /\ sends[i].key = NewSend.key
                 /\ sends[i].res = "raised"
                 /\ sends[i].seen = LAST_ALERT_TIMES[NewSend.key])
             => NewSend.res = "pending")
      ]_vars

\* C3 witness: a post raised, and the same job's next send for the key,
\* inside what would be the cooldown window, called the Notifier again
C3_Witness ==
    \E i, j \in NotifierCalls :
        /\ i < j
        /\ sends[i].key = sends[j].key
        /\ sends[i].by = sends[j].by
        /\ sends[i].res = "raised"
        /\ sends[j].at - sends[i].at < CooldownWindow

C21_SendNeverRaises ==
    \A i \in 1..Len(sends) :
        /\ sends[i].res \in {"suppressed", "ok", "raised"} => sends[i].ret = "returned"
        /\ sends[i].res = "pending" =>
               \E c \in Callers : sendSt[c].pc = "posting" /\ sendSt[c].idx = i

\* C21 witness: one call whose post raised, one that was posted and one that
\* was suppressed have all returned
C21_Witness ==
    /\ \E i \in 1..Len(sends) : sends[i].res = "raised" /\ sends[i].ret = "returned"
    /\ \E i \in 1..Len(sends) : sends[i].res = "ok" /\ sends[i].ret = "returned"
    /\ \E i \in 1..Len(sends) : sends[i].res = "suppressed" /\ sends[i].ret = "returned"

(* ------------------------------------------------------------------ *)
(* drivers.get_driver                                                   *)
(* ------------------------------------------------------------------ *)
\* lines 31-49: strip, upper-case, then the alias table
NormalizedType(rt) ==
    CASE rt \in {"MIKROTIK_ROUTEROS_REST", "mikrotik", "MIKROTIK"} -> "MIKROTIK_ROUTEROS_REST"
      [] rt \in {"TP_LINK_OPENWRT_SSH", "openwrt", "TPLINK"} -> "TP_LINK_OPENWRT_SSH"
      [] rt = "HUAWEI" -> "HUAWEI"
      [] OTHER -> rt

\* lines 21-24: the keys of _DRIVER_REGISTRY
DriverRegistry == {"MIKROTIK_ROUTEROS_REST", "TP_LINK_OPENWRT_SSH"}

\* lines 27-59: the driver class of a router type, or the KeyError raised
get_driver(rt) ==
    IF rt = "" THEN "KeyError"
    ELSE IF NormalizedType(rt) \in DriverRegistry THEN NormalizedType(rt)
    ELSE "KeyError"

(* ------------------------------------------------------------------ *)
(* telegram.send_alert run to completion by one sequential caller       *)
(* ------------------------------------------------------------------ *)
\* the outcome of send_alert(k) called at time t, `posted` telling whether
\* _post_message returns (TRUE) or raises (FALSE)
SendResult(k, t, posted) ==
    IF InCooldown(LAST_ALERT_TIMES[k], t) THEN "suppressed"
    ELSE IF posted THEN "ok" ELSE "raised"

\* the cooldown map after that call (line 127 runs only after a post that returned)
EntriesAfterSend(k, t, posted) ==
    IF SendResult(k, t, posted) = "ok"
    THEN [LAST_ALERT_TIMES EXCEPT ![k] = t]
    ELSE LAST_ALERT_TIMES

(* ------------------------------------------------------------------ *)
(* health_monitor                                                       *)
(* ------------------------------------------------------------------ *)
RECURSIVE NewestFirst(_)
\* ORDER BY checked_at DESC of rows kept oldest first
NewestFirst(rows) ==
    IF rows = <<>> THEN <<>>
    ELSE <<rows[Len(rows)].status>> \o NewestFirst(SubSeq(rows, 1, Len(rows) - 1))

\* last_n_statuses: the statuses of the n most recent rows, most recent first
last_n_statuses(rows, n) ==
    LET all == NewestFirst(rows)
    IN  IF Len(all) <= n THEN all ELSE SubSeq(all, 1, n)

\* should_alert_offline_confirmed without the test of the row before the group
should_alert_no_edge(last_statuses, required) ==
    /\ Len(last_statuses) >= required
    /\ \A i \in 1..required : last_statuses[i] = "offline"

\* should_alert_offline_confirmed(last_statuses, required)
should_alert_offline_confirmed(last_statuses, required) ==
    IF Len(last_statuses) < required THEN FALSE
    ELSE IF ~(\A i \in 1..required : last_statuses[i] = "offline") THEN FALSE
    ELSE IF Len(last_statuses) >= required + 1
         THEN last_statuses[required + 1] # "offline"
    ELSE TRUE

\* the alert of check_host with line 184 testing previous_status != "online"
\* alone, without the test that a previous status is cached
AlertOfCheckAnyNonOnline(h, status, rowsAfter) ==
    IF ~hosts[h].notify_enabled THEN "none"
    ELSE IF status = "online"
         THEN IF hosts[h].last_status # "online" THEN "host_online" ELSE "none"
    ELSE IF should_alert_offline_confirmed(last_n_statuses(rowsAfter, 6), 5)
         THEN "host_offline_confirmed" ELSE "none"

\* the alert check_host dispatches (lines 180-217) for a check with result
\* `status`, given the cached previous status and the rows after the flush
AlertOfCheck(h, status, rowsAfter) ==
    IF ~hosts[h].notify_enabled THEN "none"
    ELSE IF status = "online"
         THEN IF hosts[h].last_status # "None" /\ hosts[h].last_status # "online"
              THEN "host_online" ELSE "none"
    ELSE IF should_alert_offline_confirmed(last_n_statuses(rowsAfter, 6), 5)
         THEN "host_offline_confirmed" ELSE "none"

\* the host cache after a check, were it written for an online result only
CacheKeptWhenOffline(h, status) ==
    IF status = "online" THEN [hosts EXCEPT ![h].last_status = status] ELSE hosts

\* lines 165-168: host.last_status = status, whatever the result
CacheAfterCheck(h, status) == [hosts EXCEPT ![h].last_status = status]

\* check_host(session, host): validate through the driver, append the health
\* row, overwrite the host cache, then alert; `reachable` is the outcome of
\* driver.validate, `posted` that of the Notifier
check_host(h, reachable, posted) ==
    /\ Len(host_health[h]) < MaxChecks
    /\ get_driver(hosts[h].router_type) # "KeyError"
    /\ LET status == IF reachable THEN "online" ELSE "offline"
           rowsAfter == Append(host_health[h],
                               [status |-> status, prev |-> hosts[h].last_status,
                                notify |-> FALSE, alert |-> "none", called |-> FALSE])
           alert == AlertOfCheck(h, status, rowsAfter)
           called == alert # "none" /\ SendResult(<<h, alert>>, now, posted) # "suppressed"
       IN  /\ host_health' = [host_health EXCEPT ![h] =
                  Append(@, [status |-> status, prev |-> hosts[h].last_status,
                             notify |-> hosts[h].notify_enabled,
                             alert |-> alert, called |-> called])]
           /\ hosts' = CacheAfterCheck(h, status)
           /\ LAST_ALERT_TIMES' = IF alert = "none" THEN LAST_ALERT_TIMES
                                  ELSE EntriesAfterSend(<<h, alert>>, now, posted)
    /\ health_raised' = FALSE
    /\ UNCHANGED <<now, nonHealthVars>>

\* check_host, line 139: get_driver raises for an unknown router type, before
\* anything is recorded; the exception leaves check_all_hosts and the job
check_host_unknown_driver(h) ==
    /\ get_driver(hosts[h].router_type) = "KeyError"
    /\ health_raised' = TRUE
    /\ UNCHANGED <<now, LAST_ALERT_TIMES, hosts, host_health, nonHealthVars>>

NextHealth ==
    \/ \E h \in Hosts, reachable \in BOOLEAN, posted \in BOOLEAN :
          check_host(h, reachable, posted) /\ UNCHANGED batch
    \/ \E h \in Hosts : check_host_unknown_driver(h) /\ UNCHANGED batch
    \/ Tick

\* the periodic health job checking the stored hosts
InitOfHealth == InitSend /\ InitHealth /\ RunQuiet /\ SchedQuiet /\ SevQuiet /\ SysQuiet
SpecHealth == InitOfHealth /\ [][NextHealth]_vars

(* ------------------------------------------------------------------ *)
(* the health job across restarts of the process                        *)
(* ------------------------------------------------------------------ *)
\* the process ends and is started again: the module telegram is imported
\* anew, _LAST_ALERT_TIMES = {} (telegram.py line 28); the tables hosts and
\* host_health are in the database and stay as they are
restart ==
    /\ boot.n < MaxRestarts
    /\ boot' = [n |-> boot.n + 1, rows |-> [h \in AllHosts |->
                     IF h \in Hosts THEN Len(host_health[h]) ELSE 0]]
    /\ LAST_ALERT_TIMES' = [k \in AlertKeys |-> NoEntry]
    /\ UNCHANGED <<now, sendVars, hosts, healthVars, rules, runVars, schedVars, sevVars,
                   summaryVars, engineVars, lifeVars, pipeVars>>

NextRestart ==
    \/ \E h \in Hosts, reachable \in BOOLEAN, posted \in BOOLEAN :
          /\ Len(host_health[h]) < MaxRestartChecks
          /\ check_host(h, reachable, posted) /\ UNCHANGED batch
    \/ restart
    \/ Tick

SpecRestart == InitOfHealth /\ [][NextRestart]_vars

\* C33: a host_offline_confirmed alert decided after a restart rests on five
\* checks made since that restart: the statuses stored before the restart do
\* not count toward the five in a row
C33_FlapWindowResetByRestart ==
    \A h \in Hosts : \A i \in 1..Len(host_health[h]) :
        (host_health[h][i].alert = "host_offline_confirmed" /\ i > boot.rows[h])
            => i - boot.rows[h] >= 5

(* ------------------------------------------------------------------ *)
(* Properties of the health monitor                                     *)
(* ------------------------------------------------------------------ *)
(* ------------------------------------------------------------------ *)
(* health_monitor.check_all_hosts, run by scheduler.health_job          *)
(* ------------------------------------------------------------------ *)
\* select(Host): the stored hosts, in id order
HostList == IF hosts[1].exists
            THEN (IF hosts[2].exists THEN <<1, 2>> ELSE <<1>>)
            ELSE (IF hosts[2].exists THEN <<2>> ELSE <<>>)

\* scheduler lines 46-50 and check_all_hosts lines 227-229: the job opens a
\* session and a transaction and loads the hosts
check_all_hosts_begin ==
    /\ batch.pc # "running"
    /\ batch.round < MaxBatches
    /\ batch' = [batch EXCEPT !.pc = IF HostList = <<>> THEN "done" ELSE "running",
                              !.round = @ + 1, !.todo = HostList,
                              !.saved = <<hosts, host_health>>]
    /\ UNCHANGED <<now, LAST_ALERT_TIMES, hosts, host_health, health_raised, nonHealthVars>>

\* check_all_hosts lines 230-231: check_host of the next host returns; after
\* the last host the transaction of the job commits
check_all_hosts_check(reachable, posted) ==
    /\ batch.pc = "running"
    /\ LET h == Head(batch.todo)
       IN  /\ check_host(h, reachable, posted)
           /\ batch' = [batch EXCEPT !.todo = Tail(@), !.calls[h] = @ + 1,
                                     !.pc = IF Tail(batch.todo) = <<>> THEN "done"
                                            ELSE "running"]

\* check_host line 139 raises for the next host: the exception leaves
\* check_all_hosts, and session.begin() rolls back what the run has flushed
check_all_hosts_raise ==
    /\ batch.pc = "running"
    /\ LET h == Head(batch.todo)
       IN  /\ get_driver(hosts[h].router_type) = "KeyError"
           /\ batch' = [batch EXCEPT !.pc = "aborted", !.calls[h] = @ + 1]
    /\ hosts' = batch.saved[1]
    /\ host_health' = batch.saved[2]
    /\ health_raised' = TRUE
    /\ UNCHANGED <<now, LAST_ALERT_TIMES, nonHealthVars>>

\* two stored hosts of any router type and notification flag, never checked
InitBatch ==
    /\ InitSend /\ RunQuiet /\ SchedQuiet /\ SevQuiet /\ SysQuiet
    /\ hosts \in [AllHosts -> {NewHost(rt, n) : rt \in RouterTypes, n \in BOOLEAN}]
    /\ host_health = [h \in AllHosts |-> <<>>]
    /\ health_raised = FALSE
    /\ batch = NoBatch

NextBatch ==
    \/ check_all_hosts_begin
    \/ \E reachable \in BOOLEAN, posted \in BOOLEAN : check_all_hosts_check(reachable, posted)
    \/ check_all_hosts_raise
    \/ Tick

\* the periodic health job over two hosts
SpecBatch == InitBatch /\ [][NextBatch]_vars

\* routers/hosts.update_host lines 140-163: an operator changes the router
\* type of a stored host; a type of no driver is stored as it is.  Taken here
\* between two runs of the health job
update_host(h, rt) ==
    /\ batch.pc # "running"
    /\ hosts[h].exists /\ hosts[h].router_type # rt
    /\ hosts' = [hosts EXCEPT ![h].router_type = rt]
    /\ UNCHANGED <<now, LAST_ALERT_TIMES, healthVars, nonHealthVars>>

NextBatchHosts ==
    \/ NextBatch
    \/ \E h \in AllHosts, rt \in RouterTypes : update_host(h, rt)

\* the periodic health job while operators edit the hosts
SpecBatchHosts == InitBatch /\ [][NextBatchHosts]_vars

\* C38: when no run of the health job is in progress, every health alert
\* that has reached the Notifier (its cooldown entry is set) belongs to a
\* check whose HealthRecord is stored: no alert and no cooldown entry is
\* left from a run whose transaction was rolled back
C38_AlertOnlyForCommittedCheck ==
    batch.pc # "running" =>
        \A k \in HealthKeys :
            LAST_ALERT_TIMES[k] # NoEntry =>
                \E i \in 1..Len(host_health[k[1]]) :
                    /\ host_health[k[1]][i].alert = k[2]
                    /\ host_health[k[1]][i].called

\* a run of the health job has ended
BatchEnded == batch.pc \in {"done", "aborted"}

\* the tables hosts and host_health as committed: what the running job has
\* flushed inside its open transaction is not part of them yet
StoredHosts == IF batch.pc = "running" THEN batch.saved[1] ELSE hosts
StoredHealth == IF batch.pc = "running" THEN batch.saved[2] ELSE host_health

\* the cached status of every host is that of its latest row, or None
\* when it has no row
CacheIsLatest(hs, rows) ==
    \A h \in AllHosts :
        IF rows[h] = <<>> THEN hs[h].last_status = "None"
        ELSE /\ hs[h].last_status = rows[h][Len(rows[h])].status
             /\ hs[h].last_status \in {"online", "offline"}

\* C34: in every state the cached status of a host is the status of its
\* most recent HealthRecord, or None when it has none, both in the tables
\* as committed and in what the running job sees; a cached status that is
\* online or offline never becomes None again, and the stored HealthRecords
\* of a host only grow at the end, no stored row changed or removed
C34_CacheFollowsLatestRecord ==
    /\ [](CacheIsLatest(hosts, host_health) /\ CacheIsLatest(StoredHosts, StoredHealth))
    /\ [][\A h \in AllHosts :
             /\ Len(StoredHealth'[h]) >= Len(StoredHealth[h])
             /\ SubSeq(StoredHealth'[h], 1, Len(StoredHealth[h])) = StoredHealth[h]
             /\ StoredHosts[h].last_status # "None"
                    => StoredHosts'[h].last_status \in {"online", "offline"}
         ]_vars

\* C34 witness: two runs of the health job have committed, the second with
\* another result for a host than the first
C34_Witness ==
    /\ batch.pc = "done" /\ batch.round = 2
    /\ \E h \in AllHosts :
           /\ Len(host_health[h]) = 2
           /\ host_health[h][1].status = "online"
           /\ host_health[h][2].status = "offline"
           /\ hosts[h].last_status = "offline"

\* C18 (as stated): when a run of the health job has ended, every host whose
\* own check has nothing wrong (its driver type resolves) has been checked in
\* that run and has its HealthRecord and cached status recorded, whatever
\* happened with the other host.
C18_BatchChecksEveryHost ==
    BatchEnded =>
        \A h \in AllHosts :
            get_driver(hosts[h].router_type) # "KeyError" =>
                /\ Len(host_health[h]) = batch.round
                /\ hosts[h].last_status # "None"

\* C19 (as stated): when no run of the health job is in progress, every check
\* of a host that was made has appended exactly one HealthRecord and the
\* cached status is that of the latest record.
C19_OneRecordPerCheck ==
    batch.pc # "running" =>
        \A h \in AllHosts :
            /\ Len(host_health[h]) = batch.calls[h]
            /\ batch.calls[h] > 0 =>
                  hosts[h].last_status = host_health[h][Len(host_health[h])].status

RECURSIVE OfflineRun(_, _)
\* the number of consecutive offline rows that end with row i
OfflineRun(rows, i) ==
    IF i = 0 \/ rows[i].status # "offline" THEN 0
    ELSE 1 + OfflineRun(rows, i - 1)

\* C4: for a host with the notification flag set, within a run of
\* consecutive offline checks (after an empty history or an online check)
\* the host_offline_confirmed alert is dispatched on exactly the 5th
\* offline check of the run: not on checks 1 to 4, not on the 6th or later.
C4_AlertOnFifthOffline ==
    \A h \in Hosts : \A i \in 1..Len(host_health[h]) :
        LET row == host_health[h][i]
        IN  (row.notify /\ row.status = "offline")
                => (row.alert = "host_offline_confirmed"
                        <=> OfflineRun(host_health[h], i) = 5)

\* C4 witness: an online check followed by six offline checks, the alert
\* dispatched by the fifth of them and not by the sixth
C4_Witness ==
    \E h \in Hosts : \E i \in 1..Len(host_health[h]) :
        LET rows == host_health[h]
        IN  /\ OfflineRun(rows, i) = 6
            /\ i > 6
            /\ rows[i - 6].status = "online"
            /\ rows[i].notify
            /\ rows[i - 1].alert = "host_offline_confirmed"
            /\ rows[i].alert = "none"

\* C5: for a host with the notification flag set and any prior history,
\* every sustained outage (a run of at least 5 consecutive offline checks)
\* has exactly one host_offline_confirmed message reach the Notifier.
C5_OneMessagePerOutage ==
    \A h \in Hosts : \A i \in 1..Len(host_health[h]) :
        LET rows == host_health[h]
            n == OfflineRun(rows, i)
            run == (i - n + 1)..i
        IN  (n >= 5 /\ \A j \in run : rows[j].notify)
                => Cardinality({j \in run : /\ rows[j].alert = "host_offline_confirmed"
                                            /\ rows[j].called}) = 1

\* C16 (as stated): for a host with the notification flag set, a check that
\* results in online dispatches the recovered alert (host_online) exactly
\* when the previous cached status is anything other than online, the
\* never-checked default included.
C16_RecoveredOnAnyNonOnline ==
    \A h \in Hosts : \A i \in 1..Len(host_health[h]) :
        LET row == host_health[h][i]
        IN  (row.notify /\ row.status = "online")
                => (row.alert = "host_online" <=> row.prev # "online")

\* C16 (amended): for a host with the notification flag set, a check that
\* results in online dispatches the recovered alert exactly when a previous
\* status is cached and it is not online (that is, offline); with previous
\* status online, or with none cached (never checked), it dispatches none.
C16_RecoveredOnOfflineToOnline ==
    \A h \in Hosts : \A i \in 1..Len(host_health[h]) :
        LET row == host_health[h][i]
        IN  (row.notify /\ row.status = "online")
                => (row.alert = "host_online" <=> row.prev = "offline")

\* C16 witness: with the flag set, an online check after an offline one
\* dispatched the alert, and the online check after it dispatched none.
C16_Witness ==
    \E h \in Hosts : \E i \in 2..Len(host_health[h]) :
        LET rows == host_health[h]
        IN  /\ rows[i].notify /\ rows[i - 1].notify
            /\ rows[i - 1].status = "online" /\ rows[i - 1].prev = "offline"
            /\ rows[i - 1].alert = "host_online"
            /\ rows[i].status = "online" /\ rows[i].prev = "online"
            /\ rows[i].alert = "none"

\* C17 (as stated): every recovered alert dispatched on an offline-to-online
\* transition reaches the Notifier, whatever the time since the previous
\* recovered alert of the host.
C17_RecoveredNeverSuppressed ==
    \A h \in Hosts : \A i \in 1..Len(host_health[h]) :
        LET row == host_health[h][i]
        IN  row.alert = "host_online" => row.called

(* ------------------------------------------------------------------ *)
(* action_runner.execute_and_record                                     *)
(* ------------------------------------------------------------------ *)
\* the except branch of lines 235-239 leaving the status as initialised
RunStatusNoFail(driver_ok) == "SUCCESS"

\* lines 200, 235-236: SUCCESS unless driver.execute_action raised
RunStatus(driver_ok) == IF driver_ok THEN "SUCCESS" ELSE "FAIL"

\* lines 205, 237: error_message is str(exc) when driver.execute_action
\* raised, None otherwise
ErrorMessage(driver_ok) == IF driver_ok THEN "None" ELSE "str(exc)"

\* line 323 with the test of the attempt number left out
NoResponseOnAnyFail(telegram, status, attempt, max_attempts) ==
    telegram /\ status = "FAIL"

\* line 323 with attempt > max_attempts for attempt >= max_attempts
NoResponseAfterMax(telegram, status, attempt, max_attempts) ==
    telegram /\ status = "FAIL" /\ attempt > max_attempts

\* line 323: telegram_enabled and status == FAIL and attempt >= max_attempts
NoResponseDue(telegram, status, attempt, max_attempts) ==
    telegram /\ status = "FAIL" /\ attempt >= max_attempts

\* the send_alert calls of one execute_and_record invocation (lines 269-332)
\* for an action other than VER_LOGS_USSD, as log entries
RunAlerts(h, by, firing, attempt, max_attempts, telegram, status, posted) ==
    IF NoResponseDue(telegram, status, attempt, max_attempts)
    THEN <<[key |-> <<h, "no_response">>, rule |-> by, firing |-> firing,
            attempt |-> attempt, of |-> max_attempts,
            called |-> SendResult(<<h, "no_response">>, now, posted) # "suppressed"]>>
    ELSE <<>>

\* the cooldown map after those calls
EntriesAfterRun(h, sent, posted) ==
    IF sent = <<>> THEN LAST_ALERT_TIMES
    ELSE EntriesAfterSend(<<h, "no_response">>, now, posted)

\* the row execute_and_record persists (lines 247-264)
RunRow(h, by, firing, attempt, driver_ok) ==
    [host_id |-> h, status |-> RunStatus(driver_ok),
     error_message |-> ErrorMessage(driver_ok), raised |-> ~driver_ok,
     rule |-> by, firing |-> firing, attempt |-> attempt]

\* routers/actions.run_action: a manual execution, execute_and_record with
\* attempt 1 of 1 and alerts on
run_action(h, driver_ok, posted) ==
    /\ manual_calls < MaxManual
    /\ manual_calls' = manual_calls + 1
    /\ run_calls' = run_calls + 1
    /\ IF get_driver(hosts[h].router_type) = "KeyError"
       THEN \* execute_and_record line 196 raises: nothing is recorded
            UNCHANGED <<LAST_ALERT_TIMES, action_runs, alerts>>
       ELSE LET status == RunStatus(driver_ok)
                sent == RunAlerts(h, 0, 0, 1, 1, TRUE, status, posted)
            IN  /\ action_runs' = Append(action_runs, RunRow(h, 0, 0, 1, driver_ok))
                /\ alerts' = alerts \o sent
                /\ LAST_ALERT_TIMES' = EntriesAfterRun(h, sent, posted)
    /\ UNCHANGED <<now, rules, rule_run, nonRunVars, schedVars>>

(* ------------------------------------------------------------------ *)
(* scheduler.SchedulerService._run_rule                                 *)
(* ------------------------------------------------------------------ *)
\* the trigger of the job of rule r fires and the scheduler starts an
\* instance of job_wrapper (max_instances is 1: none while one is running)
job_fire(r) ==
    /\ JobId[r] \in jobs
    /\ rule_run[r].pc = "idle"
    /\ rule_run[r].firing < MaxFirings
    /\ rule_run' = [rule_run EXCEPT ![r] =
                       [NoRun EXCEPT !.pc = "load", !.firing = rule_run[r].firing + 1]]
    /\ UNCHANGED <<now, LAST_ALERT_TIMES, rules, action_runs, alerts, run_calls,
                   manual_calls, nonRunVars, schedVars>>

\* _run_rule with the test of rule.enabled (line 173) left out
RuleSkippedNoCheck(r) ==
    ~hosts[rules[r].host_id].exists \/ ~hosts[rules[r].host_id].enabled

\* lines 172-180: the firing returns when the rule or its host is disabled
RuleSkipped(r) ==
    \/ ~rules[r].exists \/ ~rules[r].enabled
    \/ ~hosts[rules[r].host_id].exists \/ ~hosts[rules[r].host_id].enabled

\* line 182: attempts = rule.max_attempts if rule.retry_enabled else 1
Attempts(r) == IF rules[r].retry_enabled THEN rules[r].max_attempts ELSE 1

\* lines 171-186: load the rule and its host, return when disabled, else
\* enter the retry loop (which has no iteration when attempts < 1)
run_rule_load(r) ==
    /\ rule_run[r].pc = "load"
    /\ rule_run' = [rule_run EXCEPT ![r] =
          IF RuleSkipped(r) \/ Attempts(r) < 1
          THEN [@ EXCEPT !.pc = "idle", !.chk = disable_done[r]]
          ELSE [@ EXCEPT !.pc = "attempt", !.attempt = 1, !.attempts = Attempts(r),
                         !.telegram = rules[r].telegram_enabled,
                         !.chk = disable_done[r]]]
    /\ UNCHANGED <<now, LAST_ALERT_TIMES, rules, action_runs, alerts, run_calls,
                   manual_calls, nonRunVars, schedVars>>

\* the retry loop that goes on after a SUCCESS
LoopEndsAtMaxOnly(status, attempt, attempts) == attempt >= attempts

\* lines 186-208: the loop ends on SUCCESS (break) or after the last attempt
LoopEnds(status, attempt, attempts) == status = "SUCCESS" \/ attempt >= attempts

\* lines 213-278: the result alert of the firing, as log entries
FinalAlerts(h, r, status, posted) ==
    LET key == <<h, IF status = "SUCCESS" THEN "auto_1_success" ELSE "auto_1_fail">>
    IN  IF rule_run[r].telegram
        THEN <<[key |-> key, rule |-> r, firing |-> rule_run[r].firing,
                attempt |-> rule_run[r].attempt, of |-> rule_run[r].attempts,
                called |-> SendResult(key, now, posted) # "suppressed"]>>
        ELSE <<>>

\* lines 187-208 and 213-283: one iteration of the retry loop, that is one
\* execute_and_record call, followed by the result alert when the loop ends
\* or by the retry delay (asyncio.sleep) when it goes on
run_rule_attempt(r, driver_ok, posted, posted_result) ==
    /\ rule_run[r].pc = "attempt"
    /\ run_calls' = run_calls + 1
    /\ LET h == rules[r].host_id
           run == rule_run[r]
       IN  IF get_driver(hosts[h].router_type) = "KeyError"
           THEN \* execute_and_record line 196 raises out of _run_rule
                /\ rule_run' = [rule_run EXCEPT ![r].pc = "idle"]
                /\ UNCHANGED <<LAST_ALERT_TIMES, action_runs, alerts>>
           ELSE LET status == RunStatus(driver_ok)
                    sent == RunAlerts(h, r, run.firing, run.attempt, run.attempts,
                                      run.telegram, status, posted)
                    ends == LoopEnds(status, run.attempt, run.attempts)
                    final == IF ends THEN FinalAlerts(h, r, status, posted_result) ELSE <<>>
                    last1 == EntriesAfterRun(h, sent, posted)
                IN  /\ action_runs' = Append(action_runs,
                                             RunRow(h, r, run.firing, run.attempt, driver_ok))
                    /\ alerts' = alerts \o sent \o final
                    /\ LAST_ALERT_TIMES' =
                          IF final # <<>>
                             /\ SendResult(final[1].key, now, posted_result) = "ok"
                          THEN [last1 EXCEPT ![final[1].key] = now]
                          ELSE last1
                    /\ rule_run' = [rule_run EXCEPT ![r] =
                          [@ EXCEPT !.pc = IF ends THEN "idle" ELSE "sleeping",
                                    !.returned = @ + 1, !.last = status]]
    /\ UNCHANGED <<now, rules, manual_calls, nonRunVars, schedVars>>

\* line 208: asyncio.sleep(delay) returns and the next iteration starts
run_rule_wake(r) ==
    /\ rule_run[r].pc = "sleeping"
    /\ rule_run' = [rule_run EXCEPT ![r] = [@ EXCEPT !.pc = "attempt", !.attempt = @ + 1]]
    /\ UNCHANGED <<now, LAST_ALERT_TIMES, rules, action_runs, alerts, run_calls,
                   manual_calls, nonRunVars, schedVars>>

\* the clock advances while rule jobs run
TickRun ==
    /\ now < MaxTime
    /\ now' = now + 1
    /\ UNCHANGED <<LAST_ALERT_TIMES, rules, runVars, nonRunVars, schedVars>>

\* stored rules of every retry policy on a host of any router type, none run yet
InitRun ==
    /\ hosts \in [Hosts -> {[NewHost(rt, TRUE) EXCEPT !.enabled = e] :
                              rt \in RouterTypes, e \in BOOLEAN}]
    /\ host_health = [h \in Hosts |-> <<>>]
    /\ health_raised = FALSE
    /\ batch = NoBatch
    /\ rules \in [Rules -> {NewRule(TRUE, retry, m, t) :
                              retry \in BOOLEAN, m \in 0..MaxAttempts, t \in BOOLEAN}]
    /\ rule_run = [r \in Rules |-> NoRun]
    /\ action_runs = <<>>
    /\ alerts = <<>>
    /\ run_calls = 0
    /\ manual_calls = 0

InitOfRun == InitSend /\ InitRun /\ SchedQuiet /\ SevQuiet /\ SysQuiet

NextRun ==
    \/ \E r \in Rules : job_fire(r)
    \/ \E r \in Rules : run_rule_load(r)
    \/ \E r \in Rules, driver_ok \in BOOLEAN, posted \in BOOLEAN, posted_result \in BOOLEAN :
          run_rule_attempt(r, driver_ok, posted, posted_result)
    \/ \E r \in Rules : run_rule_wake(r)
    \/ \E h \in Hosts, driver_ok \in BOOLEAN, posted \in BOOLEAN : run_action(h, driver_ok, posted)
    \/ TickRun

\* the rule jobs with their retry loop, and manual executions
SpecRun == InitOfRun /\ [][NextRun]_vars


(* ------------------------------------------------------------------ *)
(* Properties of the rule jobs and of the execution pipeline            *)
(* ------------------------------------------------------------------ *)
\* the rows that firing f of the job of rule r has persisted, oldest first
FiringRows(r, f) == SelectSeq(action_runs, LAMBDA row : row.rule = r /\ row.firing = f)

\* the no_response alerts that firing f of the job of rule r has dispatched
NoResponseAlerts(r, f) ==
    SelectSeq(alerts, LAMBDA a : a.rule = r /\ a.firing = f /\ a.key[2] = "no_response")

\* a firing of the job of rule r has ended after at least one attempt
FiringEnded(r) == rule_run[r].pc = "idle" /\ rule_run[r].returned >= 1

\* C6 (as stated): a firing that has ended has persisted exactly one
\* ActionRun for its whole retry sequence, with the status of the final
\* attempt.
C6_OneRunPerFiring ==
    \A r \in Rules :
        FiringEnded(r) =>
            LET rows == FiringRows(r, rule_run[r].firing)
            IN  Len(rows) = 1 /\ rows[1].status = rule_run[r].last

\* C6 (amended): a firing persists one ActionRun for each attempt whose
\* execute_and_record call has returned: the i-th row is that of attempt i,
\* every row but the last is a FAIL, and the last row has the status of the
\* latest attempt.
C6_OneRunPerAttempt ==
    \A r \in Rules :
        LET rows == FiringRows(r, rule_run[r].firing)
        IN  /\ Len(rows) = rule_run[r].returned
            /\ \A i \in 1..Len(rows) :
                  /\ rows[i].attempt = i
                  /\ i < Len(rows) => rows[i].status = "FAIL"
                  /\ i = Len(rows) => rows[i].status = rule_run[r].last

\* C6 witness: a firing with maxAttempts = 3 has ended after FAIL, FAIL,
\* SUCCESS and has left three rows.
C6_Witness ==
    \E r \in Rules :
        /\ FiringEnded(r)
        /\ LET rows == FiringRows(r, rule_run[r].firing)
           IN  /\ Len(rows) = 3
               /\ rows[1].status = "FAIL" /\ rows[2].status = "FAIL"
               /\ rows[3].status = "SUCCESS"

\* C7: a firing of a rule with notifications on, all of whose attempts
\* failed, has dispatched exactly one no_response alert, that of its last
\* attempt (attempt = maxAttempts); while the attempts are still going on it
\* has dispatched none.
C7_OneNoResponseAfterLastAttempt ==
    \A r \in Rules :
        LET run == rule_run[r]
            sent == NoResponseAlerts(r, run.firing)
        IN  /\ (FiringEnded(r) /\ run.telegram /\ run.last = "FAIL") =>
                  /\ Len(sent) = 1
                  /\ sent[1].attempt = run.attempts
                  /\ run.returned = run.attempts
            /\ run.pc \in {"attempt", "sleeping"} => sent = <<>>

\* C7 witness: maxAttempts = 2, both attempts failed, one no_response alert.
C7_Witness ==
    \E r \in Rules :
        /\ FiringEnded(r) /\ rule_run[r].telegram /\ rule_run[r].last = "FAIL"
        /\ rule_run[r].attempts = 2 /\ rule_run[r].returned = 2
        /\ Len(NoResponseAlerts(r, rule_run[r].firing)) = 1

\* C8: no no_response alert belongs to an attempt below maxAttempts: a
\* failed attempt that is not the last one has dispatched none, and a firing
\* whose latest attempt is a SUCCESS has dispatched none at all.
C8_NoResponseOnlyWhenExhausted ==
    /\ \A i \in 1..Len(alerts) :
          alerts[i].key[2] = "no_response" => alerts[i].attempt >= alerts[i].of
    /\ \A r \in Rules :
          LET run == rule_run[r]
              rows == FiringRows(r, run.firing)
              sent == NoResponseAlerts(r, run.firing)
          IN  /\ \A i \in 1..Len(rows) :
                    (rows[i].status = "FAIL" /\ rows[i].attempt < run.attempts) =>
                        \A j \in 1..Len(sent) : sent[j].attempt # rows[i].attempt
              /\ run.last = "SUCCESS" => sent = <<>>

\* C8 witness: with notifications on, a firing failed its first attempt,
\* succeeded on a later one and has ended.
C8_Witness ==
    \E r \in Rules :
        /\ FiringEnded(r) /\ rule_run[r].telegram
        /\ rule_run[r].returned >= 2 /\ rule_run[r].last = "SUCCESS"

\* C10 (as stated): every invocation of the pipeline that has ended has
\* persisted exactly one ActionRun.
C10_OneRunPerInvocation == Len(action_runs) = run_calls

\* the rows persisted by manual executions, and their no_response alerts
ManualRows == SelectSeq(action_runs, LAMBDA row : row.rule = 0)
ManualNoResponse == SelectSeq(alerts, LAMBDA a : a.rule = 0 /\ a.key[2] = "no_response")

\* C28: every manual execution requested has made exactly one driver call,
\* recorded as attempt 1, and each one whose call failed has dispatched one
\* no_response alert, for attempt 1 of 1
C28_ManualRunsOnce ==
    /\ Len(ManualRows) = manual_calls
    /\ \A i \in 1..Len(ManualRows) : ManualRows[i].attempt = 1
    /\ Len(ManualNoResponse) = Len(SelectSeq(ManualRows, LAMBDA row : row.status = "FAIL"))
    /\ \A i \in 1..Len(ManualNoResponse) :
          ManualNoResponse[i].attempt = 1 /\ ManualNoResponse[i].of = 1


\* the rows among runs that firing f of the job of rule r persisted
RowsOfFiring(runs, r, f) == SelectSeq(runs, LAMBDA row : row.rule = r /\ row.firing = f)

\* C29: the attempts of a firing are numbered from 1 and made one after the
\* other: attempt n + 1 starts only from the retry delay that followed the
\* return of attempt n with FAIL, never beyond the attempts of the rule; the
\* driver calls of a firing are at most the stored max_attempts, and at most
\* one when retry is disabled
C29_AttemptsSequential ==
    [][\A r \in Rules :
          LET run == rule_run[r]
              rows == RowsOfFiring(action_runs', r, rule_run'[r].firing)
          IN  /\ rule_run'[r].attempt # run.attempt =>
                    \/ rule_run'[r].attempt = 0 /\ rule_run'[r].firing = run.firing + 1
                    \/ /\ rule_run'[r].attempt = 1 /\ run.attempt = 0 /\ run.returned = 0
                    \/ /\ rule_run'[r].attempt = run.attempt + 1
                       /\ run.pc = "sleeping" /\ run.last = "FAIL"
                       /\ run.returned = run.attempt
                       /\ rule_run'[r].attempt <= run.attempts
              /\ \A i \in 1..Len(rows) : rows[i].attempt = i
              /\ \A i \in 1..(Len(rows) - 1) : rows[i].status = "FAIL"
              /\ Len(rows) <= IF rules[r].retry_enabled THEN rules[r].max_attempts
                              ELSE 1]_vars

\* C29 witness: the third attempt of a firing has started, after the first
\* two returned FAIL and the retry delays were over
C29_Witness ==
    \E r \in Rules :
        /\ rule_run[r].pc = "attempt" /\ rule_run[r].attempt = 3
        /\ rule_run[r].returned = 2 /\ rule_run[r].last = "FAIL"
        /\ Len(FiringRows(r, rule_run[r].firing)) = 2

\* C40: every firing of the job of an enabled rule on an enabled host that
\* has ended has persisted at least one ActionRun, whatever retry policy is
\* stored for the rule
C40_EveryFiringExecutes ==
    \A r \in Rules :
        (/\ rule_run[r].pc = "idle" /\ rule_run[r].firing >= 1
         /\ rules[r].exists /\ rules[r].enabled
         /\ hosts[rules[r].host_id].exists /\ hosts[rules[r].host_id].enabled)
            => Len(FiringRows(r, rule_run[r].firing)) >= 1

(* ------------------------------------------------------------------ *)
(* routers/automation.update_rule and SchedulerService.add_job          *)
(* ------------------------------------------------------------------ *)
\* update_rule line 50: a request to set the enabled flag of rule r to e
\* arrives on connection c and loads the rule
update_rule_get(c, r, e) ==
    /\ req[c].pc = "idle"
    /\ rules[r].exists
    /\ n_updates < MaxUpdates
    /\ n_updates' = n_updates + 1
    /\ req' = [req EXCEPT ![c] = [pc |-> "commit", rule |-> r, enabled |-> e,
                                  loaded |-> rules[r].enabled, stands |-> FALSE]]
    /\ UNCHANGED <<now, LAST_ALERT_TIMES, rules, runVars, nonRunVars, jobs, disable_done>>

\* lines 53-55: setattr and commit; the unit of work writes the flag only when
\* it differs from the value loaded.  The request is a disabling one that
\* stands when its commit leaves the rule disabled in the store; a write that
\* enables the rule supersedes the disabling requests before it.
update_rule_commit(c) ==
    /\ req[c].pc = "commit"
    /\ LET r == req[c].rule
           e == req[c].enabled
           written == e # req[c].loaded
       IN  IF ~rules[r].exists
           THEN \* the row is gone: the UPDATE or the refresh raises
                /\ req' = [req EXCEPT ![c] = NoReq]
                /\ UNCHANGED <<rules, disable_done>>
           ELSE /\ rules' = IF written THEN [rules EXCEPT ![r].enabled = e] ELSE rules
                /\ disable_done' = IF written /\ e THEN [disable_done EXCEPT ![r] = FALSE]
                                   ELSE disable_done
                /\ req' = [d \in Conns |->
                             IF d = c THEN [req[c] EXCEPT !.pc = "remove",
                                                      !.stands = ~e /\ ~rules'[r].enabled]
                             ELSE IF written /\ e /\ req[d].rule = r
                                  THEN [req[d] EXCEPT !.stands = FALSE]
                                  ELSE req[d]]
    /\ UNCHANGED <<now, LAST_ALERT_TIMES, runVars, nonRunVars, jobs, n_updates>>

\* the request on connection c returns: a disabling request that no enabling
\* write has superseded has completed
Completed(c) ==
    [disable_done EXCEPT ![req[c].rule] = @ \/ req[c].stands]

\* the job store emptied, as by remove_all_jobs
JobStoreRemoveAll(id) == {}

\* BaseScheduler.remove_job(job_id); a job that is not there is a
\* JobLookupError, which the callers swallow
JobStoreRemove(id) == jobs \ {id}

\* the runs of the rule jobs after remove_job(job_id), were the removal of a
\* job to cancel its running instance
InstanceCancelledByRemove(id) ==
    [q \in DOMAIN rule_run |->
        IF JobId[q] = id THEN [rule_run[q] EXCEPT !.pc = "idle"] ELSE rule_run[q]]

\* the runs of the rule jobs after remove_job(job_id): the job leaves the
\* store and an instance of it that is running goes on (add_job lines
\* 139-143, delete_rule lines 70-75: nothing else is done to it)
InstanceAfterRemove(id) == rule_run

\* BaseScheduler.add_job(..., id=job_id) without replace_existing: an id the
\* store already holds is refused (ConflictingIdError)
JobStoreAdd(id) == IF id \in jobs THEN jobs ELSE jobs \cup {id}

\* update_rule line 56 and add_job lines 137-143: after the refresh, the job
\* of the rule is removed from the job store
add_job_remove(c) ==
    /\ req[c].pc = "remove"
    /\ jobs' = JobStoreRemove(JobId[req[c].rule])
    /\ rule_run' = InstanceAfterRemove(JobId[req[c].rule])
    /\ req' = [req EXCEPT ![c].pc = "get_rule"]
    /\ UNCHANGED <<now, LAST_ALERT_TIMES, rules, action_runs, alerts, run_calls, manual_calls,
                   nonRunVars, disable_done, n_updates>>

\* add_job lines 146-148: the rule is read again; disabled, add_job returns
\* and the request completes
add_job_get_rule(c) ==
    /\ req[c].pc = "get_rule"
    /\ IF rules[req[c].rule].exists /\ rules[req[c].rule].enabled
       THEN /\ req' = [req EXCEPT ![c].pc = "get_host"]
            /\ UNCHANGED disable_done
       ELSE /\ req' = [req EXCEPT ![c] = NoReq]
            /\ disable_done' = Completed(c)
    /\ UNCHANGED <<now, LAST_ALERT_TIMES, rules, runVars, nonRunVars, jobs, n_updates>>

\* the expressions CronTrigger accepts for a field among those the stored
\* schedules use
CronFields == {"*/10", "*", "0"}
\* line 156: CronTrigger.from_crontab(schedule) raises unless the schedule
\* has five fields, each a valid expression
from_crontab_raises(schedule) ==
    Len(schedule) # 5 \/ \E i \in 1..Len(schedule) : schedule[i] \notin CronFields

\* add_job without the try of lines 155-159
InvalidCronRaises == "raised"
\* lines 157-159: the exception of from_crontab is logged and add_job returns
InvalidCron == "skipped"

\* how add_job ends for rule r once rule and host are read (lines 151-164)
AddJobOutcome(r) ==
    IF ~hosts[rules[r].host_id].exists THEN "skipped"
    ELSE IF from_crontab_raises(rules[r].schedule) THEN InvalidCron
    ELSE "added"

\* add_job lines 150-164: the host is read and the job is added under its id;
\* the job store refuses an id it already holds (ConflictingIdError) and the
\* request fails
add_job_add(c) ==
    /\ req[c].pc = "get_host"
    /\ jobs' = IF AddJobOutcome(req[c].rule) = "added"
                THEN JobStoreAdd(JobId[req[c].rule])
                ELSE jobs
    /\ req' = [req EXCEPT ![c] = NoReq]
    /\ disable_done' = Completed(c)
    /\ UNCHANGED <<now, LAST_ALERT_TIMES, rules, runVars, nonRunVars, n_updates>>

\* one host with a driver, and one rule with retries, enabled or not, whose
\* job load_jobs has registered if it is enabled
InitSched ==
    /\ hosts = [h \in Hosts |-> NewHost("MIKROTIK_ROUTEROS_REST", TRUE)]
    /\ host_health = [h \in Hosts |-> <<>>]
    /\ health_raised = FALSE
    /\ batch = NoBatch
    /\ rules \in [Rules -> {NewRule(e, TRUE, 2, FALSE) : e \in BOOLEAN}]
    /\ rule_run = [r \in Rules |-> NoRun]
    /\ action_runs = <<>>
    /\ alerts = <<>>
    /\ run_calls = 0
    /\ manual_calls = 0

InitOfSched == InitSend /\ InitSched /\ SchedQuiet /\ SevQuiet /\ SysQuiet

NextSched ==
    \/ \E c \in Conns, r \in Rules, e \in BOOLEAN : update_rule_get(c, r, e)
    \/ \E c \in Conns : update_rule_commit(c)
    \/ \E c \in Conns : add_job_remove(c)
    \/ \E c \in Conns : add_job_get_rule(c)
    \/ \E c \in Conns : add_job_add(c)
    \/ \E r \in Rules : job_fire(r)
    \/ \E r \in Rules : run_rule_load(r)
    \/ \E r \in Rules, driver_ok \in BOOLEAN :
          run_rule_attempt(r, driver_ok, TRUE, TRUE)
    \/ \E r \in Rules : run_rule_wake(r)

\* rule jobs firing while operators enable and disable the rule
SpecSched == InitOfSched /\ [][NextSched]_vars

\* C9 (as stated): once a request that disables rule r has completed, no
\* action execution is started for r any more.
C9_NoRunAfterDisable ==
    [][\A r \in Rules :
          (disable_done[r] /\ rule_run[r].pc = "attempt") => rule_run'[r] = rule_run[r]]_vars

\* C9 (amended): no firing that loads rule r after a request that disables r
\* has completed starts an action execution; only a firing that loaded the
\* rule before that may still run its attempts.
C9_NoRunOfLaterFiring ==
    \A r \in Rules : rule_run[r].pc \in {"attempt", "sleeping"} => ~rule_run[r].chk

\* C9 witness: a job left in the job store for the disabled rule has fired
\* after the disabling request completed, and the firing returned without an
\* execution.
C9_Witness ==
    \E r \in Rules :
        /\ disable_done[r] /\ JobId[r] \in jobs
        /\ rule_run[r].pc = "idle" /\ rule_run[r].chk /\ rule_run[r].returned = 0


(* ------------------------------------------------------------------ *)
(* severity.evaluate_severity                                           *)
(* ------------------------------------------------------------------ *)
\* line 13-15: band(name), the two minimums of a band of the thresholds
band(thresholds, name) == <<thresholds[name].days, thresholds[name].data_mb>>

\* the test of a band without the guards days > 0 and data_mb > 0
BandMatchesNoGuard(days, mb, datos_mb, validos_dias) ==
    \/ validos_dias # NoEntry /\ validos_dias <= days
    \/ datos_mb # NoEntry /\ datos_mb < mb

\* lines 22-25, 29-32, 36-39: the test of one band
BandMatches(days, mb, datos_mb, validos_dias) ==
    \/ validos_dias # NoEntry /\ days > 0 /\ validos_dias <= days
    \/ datos_mb # NoEntry /\ mb > 0 /\ datos_mb < mb

\* evaluate_severity with the test of ALTA ahead of that of CRITICO
evaluate_severity_high_first(datos_mb, validos_dias, thresholds) ==
    LET c == band(thresholds, "critical")
        h == band(thresholds, "high")
        m == band(thresholds, "medium")
    IN  IF BandMatches(h[1], h[2], datos_mb, validos_dias) THEN "ALTA"
        ELSE IF BandMatches(c[1], c[2], datos_mb, validos_dias) THEN "CRITICO"
        ELSE IF BandMatches(m[1], m[2], datos_mb, validos_dias) THEN "MEDIA"
        ELSE "None"

\* lines 5-42
evaluate_severity(datos_mb, validos_dias, thresholds) ==
    LET c == band(thresholds, "critical")
        h == band(thresholds, "high")
        m == band(thresholds, "medium")
    IN  IF BandMatches(c[1], c[2], datos_mb, validos_dias) THEN "CRITICO"
        ELSE IF BandMatches(h[1], h[2], datos_mb, validos_dias) THEN "ALTA"
        ELSE IF BandMatches(m[1], m[2], datos_mb, validos_dias) THEN "MEDIA"
        ELSE "None"

\* the thresholds the settings endpoint accepts (SeverityBand: days >= 0,
\* data_mb >= 0) and the readings a parsed USSD answer carries (either may
\* be missing)
SeverityBand == [days : 0..MaxThreshold, data_mb : 0..MaxThreshold]
Readings == {NoEntry} \cup 0..MaxReading

InitSeverity ==
    /\ sev \in [thresholds : [{"critical", "high", "medium"} -> SeverityBand],
                datos_mb : Readings, validos_dias : Readings, result : {"unset"}]
    /\ InitSend /\ HealthQuiet /\ RunQuiet /\ SchedQuiet /\ SysQuiet

\* the one call: action_runner line 309, health_monitor line 283
Classify ==
    /\ sev.result = "unset"
    /\ sev' = [sev EXCEPT !.result =
                  evaluate_severity(sev.datos_mb, sev.validos_dias, sev.thresholds)]
    /\ UNCHANGED <<now, LAST_ALERT_TIMES, sendVars, hosts, healthVars, rules,
                   runVars, schedVars, sysVars>>

NextSeverity == Classify

SpecSeverity == InitSeverity /\ [][NextSeverity]_vars

\* the band whose label is the result of the call, if any
ReturnedBands == {b \in {"critical", "high", "medium"} : BandLabel[b] = sev.result}

\* C11: whatever the readings and the thresholds, the result of
\* evaluate_severity is never a band both of whose minimums are 0.
C11_DisabledBandNeverReturned ==
    \A b \in ReturnedBands :
        ~(sev.thresholds[b].days = 0 /\ sev.thresholds[b].data_mb = 0)

\* C11 witness: the critical band has both minimums 0, the reading is 0 days
\* and 0 MB, and the call returned another band.
C11_Witness ==
    /\ sev.thresholds["critical"].days = 0 /\ sev.thresholds["critical"].data_mb = 0
    /\ sev.datos_mb = 0 /\ sev.validos_dias = 0
    /\ sev.result \in {"ALTA", "MEDIA"}

\* the reference: a band matches on either condition
RefMatches(b) ==
    \/ (sev.validos_dias # NoEntry /\ sev.thresholds[b].days > 0
        /\ sev.validos_dias <= sev.thresholds[b].days)
    \/ (sev.datos_mb # NoEntry /\ sev.thresholds[b].data_mb > 0
        /\ sev.datos_mb < sev.thresholds[b].data_mb)

\* the reference: positions (in priority order) of the bands that match
RefMatching == {i \in 1..Len(BandNames) : RefMatches(BandNames[i])}

\* C12: the result of evaluate_severity is the first band, in the order
\* critical, high, medium, that matches on either condition, and none when
\* no band matches.
C12_FirstMatchingBand ==
    sev.result # "unset" =>
        IF RefMatching = {} THEN sev.result = "None"
        ELSE \E i \in RefMatching :
                /\ \A j \in RefMatching : i <= j
                /\ sev.result = BandLabel[BandNames[i]]

\* C12 witness: the high band matches on days only, the medium band matches
\* too, the critical band does not, and the call returned ALTA.
C12_Witness ==
    /\ sev.result = "ALTA"
    /\ RefMatching = {2, 3}
    /\ ~(sev.datos_mb # NoEntry /\ sev.datos_mb < sev.thresholds["high"].data_mb)


(* ------------------------------------------------------------------ *)
(* routers/automation.create_rule, delete_rule; routers/hosts.delete_host *)
(* ------------------------------------------------------------------ *)
\* the id the store gives a new rule: one more than the largest id in use
NextRuleId(r) ==
    /\ \A q \in AllRules : q >= r => ~rules[q].exists
    /\ IF r = 1 THEN TRUE ELSE rules[r - 1].exists

\* create_rule lines 38-41: the rule is added and committed under a new id;
\* add_job follows
create_rule(c, r, e) ==
    /\ req[c].pc = "idle"
    /\ n_updates < MaxUpdates
    /\ NextRuleId(r)
    /\ n_updates' = n_updates + 1
    /\ rules' = [rules EXCEPT ![r] = NewRule(e, TRUE, 2, TRUE)]
    /\ disable_done' = [disable_done EXCEPT ![r] = FALSE]
    /\ req' = [req EXCEPT ![c] = [NoReq EXCEPT !.pc = "remove", !.rule = r, !.enabled = e]]
    /\ UNCHANGED <<now, LAST_ALERT_TIMES, runVars, nonRunVars, jobs>>

\* delete_rule lines 64-66: the rule is loaded (404 when it is not there)
delete_rule_get(c, r) ==
    /\ req[c].pc = "idle"
    /\ n_updates < MaxUpdates
    /\ rules[r].exists
    /\ n_updates' = n_updates + 1
    /\ req' = [req EXCEPT ![c] = [NoReq EXCEPT !.pc = "delete_commit", !.rule = r]]
    /\ UNCHANGED <<now, LAST_ALERT_TIMES, rules, runVars, nonRunVars, jobs, disable_done>>

\* delete_rule lines 67-68: the row is deleted and the deletion committed
delete_rule_commit(c) ==
    /\ req[c].pc = "delete_commit"
    /\ rules' = [rules EXCEPT ![req[c].rule].exists = FALSE]
    /\ req' = [req EXCEPT ![c].pc = "delete_remove"]
    /\ UNCHANGED <<now, LAST_ALERT_TIMES, runVars, nonRunVars, jobs, disable_done, n_updates>>

\* delete_rule lines 70-75: the job of the rule is removed from the job store
delete_rule_remove(c) ==
    /\ req[c].pc = "delete_remove"
    /\ jobs' = JobStoreRemove(JobId[req[c].rule])
    /\ rule_run' = InstanceAfterRemove(JobId[req[c].rule])
    /\ req' = [req EXCEPT ![c] = NoReq]
    /\ UNCHANGED <<now, LAST_ALERT_TIMES, rules, action_runs, alerts, run_calls, manual_calls,
                   nonRunVars, disable_done, n_updates>>

\* delete_host lines 169-171: the host is loaded (404 when it is not there)
delete_host_get(c, h) ==
    /\ req[c].pc = "idle"
    /\ n_updates < MaxUpdates
    /\ hosts[h].exists
    /\ n_updates' = n_updates + 1
    /\ req' = [req EXCEPT ![c] = [NoReq EXCEPT !.pc = "host_commit", !.host = h]]
    /\ UNCHANGED <<now, LAST_ALERT_TIMES, rules, runVars, sendVars, hosts, healthVars,
                   sevVars, sysVars, jobs, disable_done>>

\* delete_host lines 172-173 with the cascade of Host.automation_rules: the
\* host and its rules are deleted; the request returns
delete_host_commit(c) ==
    /\ req[c].pc = "host_commit"
    /\ hosts' = [hosts EXCEPT ![req[c].host].exists = FALSE]
    /\ rules' = [r \in DOMAIN rules |->
                    IF rules[r].host_id = req[c].host
                    THEN [rules[r] EXCEPT !.exists = FALSE]
                    ELSE rules[r]]
    /\ req' = [req EXCEPT ![c] = NoReq]
    /\ UNCHANGED <<now, LAST_ALERT_TIMES, runVars, sendVars, healthVars, sevVars,
                   sysVars, jobs, disable_done, n_updates>>

\* one host, rule 1 enabled with its job registered, rule 2 stored or not,
\* the jobs of the enabled rules and of the system as start() registers them
InitJobs ==
    /\ InitSend /\ HealthQuiet /\ SevQuiet /\ SysQuiet
    /\ rules \in [AllRules -> {[NewRule(e, TRUE, 2, TRUE) EXCEPT !.exists = x] :
                                 e \in BOOLEAN, x \in BOOLEAN}]
    /\ rules[1].exists /\ rules[1].enabled
    /\ rule_run = [r \in Rules |-> NoRun]
    /\ action_runs = <<>>
    /\ alerts = <<>>
    /\ run_calls = 0
    /\ manual_calls = 0
    /\ jobs = SystemJobs \cup
              {JobId[r] : r \in {q \in AllRules : rules[q].exists /\ rules[q].enabled}}
    /\ req = [c \in Conns |-> NoReq]
    /\ disable_done = [r \in AllRules |-> FALSE]
    /\ n_updates = 0

NextJobs ==
    \/ \E c \in Conns, r \in AllRules, e \in BOOLEAN : create_rule(c, r, e)
    \/ \E c \in Conns, r \in AllRules, e \in BOOLEAN : update_rule_get(c, r, e)
    \/ \E c \in Conns : update_rule_commit(c)
    \/ \E c \in Conns : add_job_remove(c)
    \/ \E c \in Conns : add_job_get_rule(c)
    \/ \E c \in Conns : add_job_add(c)
    \/ \E c \in Conns, r \in AllRules : delete_rule_get(c, r)
    \/ \E c \in Conns : delete_rule_commit(c)
    \/ \E c \in Conns : delete_rule_remove(c)
    \/ \E c \in Conns, h \in Hosts : delete_host_get(c, h)
    \/ \E c \in Conns : delete_host_commit(c)

\* the job registry under concurrent create, update and delete requests
SpecJobs == InitJobs /\ [][NextJobs]_vars

\* the job of a rule firing and running while operators disable, enable and
\* delete the rule
NextCancel ==
    \/ NextSched
    \/ \E c \in Conns, r \in Rules : delete_rule_get(c, r)
    \/ \E c \in Conns : delete_rule_commit(c)
    \/ \E c \in Conns : delete_rule_remove(c)

SpecCancel == InitOfSched /\ [][NextCancel]_vars

\* a run of the job of rule r is executing an attempt or in its retry delay
InFlight(r) == rule_run[r].pc \in {"attempt", "sleeping"}
\* rule r is disabled or deleted
RuleGone(r) == ~rules[r].exists \/ ~rules[r].enabled

\* C35: no step of a request that disables or deletes a rule touches a run of
\* the rule that is in flight, and whatever has become of the rule and of its
\* job, the run can take its next step (the next attempt, or the end of the
\* retry delay) and ends only by a SUCCESS or with its last attempt; a
\* firing that finds the rule disabled or deleted returns without executing
C35_InFlightRunCompletes ==
    /\ [][\A r \in Rules :
             /\ (InFlight(r) /\ \E c \in Conns : req'[c] # req[c])
                    => rule_run'[r] = rule_run[r]
             /\ (InFlight(r) /\ rule_run'[r].pc = "idle")
                    => (rule_run'[r].last = "SUCCESS"
                          \/ rule_run'[r].returned = rule_run[r].attempts)
             /\ (rule_run[r].pc = "load" /\ RuleGone(r) /\ rule_run'[r] # rule_run[r])
                    => (rule_run'[r].pc = "idle" /\ action_runs' = action_runs)
         ]_vars
    /\ [](\A r \in Rules :
             /\ rule_run[r].pc = "attempt" => ENABLED run_rule_attempt(r, TRUE, TRUE, TRUE)
             /\ rule_run[r].pc = "sleeping" => ENABLED run_rule_wake(r))

\* C35 witness: the rule was deleted and its job removed while its run was in
\* the retry delay after a failed first attempt, and the run has made its
\* second attempt
C35_Witness ==
    \E r \in Rules :
        /\ ~rules[r].exists /\ JobId[r] \notin jobs
        /\ rule_run[r].pc = "idle" /\ rule_run[r].returned = 2
        /\ \A c \in Conns : req[c].pc = "idle"

\* C35 second witness: the same for a rule that was disabled
C35_WitnessDisabled ==
    \E r \in Rules :
        /\ rules[r].exists /\ ~rules[r].enabled /\ disable_done[r]
        /\ JobId[r] \notin jobs
        /\ rule_run[r].pc = "attempt" /\ rule_run[r].attempt = 2

(* ------------------------------------------------------------------ *)
(* Properties of the job registry                                       *)
(* ------------------------------------------------------------------ *)
\* no rule request is in progress
NoRequestInProgress == \A c \in Conns : req[c].pc = "idle"

\* C13 (as stated): when the update requests have all completed, the job
\* keyed by rule id r is registered if and only if rule r exists and is
\* enabled (its host exists and its schedule is valid throughout).
C13_JobIffEnabled ==
    NoRequestInProgress =>
        \A r \in Rules : JobId[r] \in jobs <=> (rules[r].exists /\ rules[r].enabled)


\* the steps of a request that operate on the job store
JobStoreStep(c) ==
    req[c].pc \in {"remove", "get_host", "delete_remove"} /\ req'[c] # req[c]

\* C14: a step that adds, re-registers or removes the job of rule r leaves
\* every other job as it was (the jobs of the other rules, health_check and
\* daily_summary), and no other step of a request changes the job store.
C14_OtherJobsUnchanged ==
    [][/\ \A c \in Conns :
            JobStoreStep(c) =>
                jobs' \ {JobId[req[c].rule]} = jobs \ {JobId[req[c].rule]}
       /\ jobs' # jobs => \E c \in Conns : JobStoreStep(c)]_vars

\* C14 witness: the job of rule 1, registered at the start, has been removed
\* by the deletion of the rule, and the job of rule 2, health_check and
\* daily_summary are registered.
C14_Witness ==
    /\ ~rules[1].exists /\ hosts[1].exists /\ JobId[1] \notin jobs
    /\ JobId[2] \in jobs /\ SystemJobs \subseteq jobs
    /\ NoRequestInProgress

\* C15 (as stated): once the deleting request has completed (here: no
\* request is in progress), no job keyed by the id of a deleted rule is
\* registered.
C15_NoJobOfDeletedRule ==
    NoRequestInProgress =>
        \A r \in AllRules : ~rules[r].exists => JobId[r] \notin jobs


\* C20: every ActionRun that execute_and_record returned has status FAIL and
\* the error text exactly when the driver's execute_action raised, and status
\* SUCCESS with no error text otherwise; and with a driver that resolves,
\* every invocation has returned its ActionRun (no driver error has left it).
C20_FailIffDriverRaised ==
    /\ \A i \in 1..Len(action_runs) :
          LET row == action_runs[i]
          IN  IF row.raised
              THEN row.status = "FAIL" /\ row.error_message = "str(exc)"
              ELSE row.status = "SUCCESS" /\ row.error_message = "None"
    /\ (\A h \in Hosts : get_driver(hosts[h].router_type) # "KeyError")
          => Len(action_runs) = run_calls

\* C20 witness: one invocation whose driver raised has returned a FAIL and
\* another whose driver returned has returned a SUCCESS.
C20_Witness ==
    \E i, j \in 1..Len(action_runs) :
        /\ action_runs[i].raised /\ action_runs[i].status = "FAIL"
        /\ ~action_runs[j].raised /\ action_runs[j].status = "SUCCESS"
        /\ Len(action_runs) = run_calls

(* ------------------------------------------------------------------ *)
(* The daily summary job: routers/settings.update_schedule and          *)
(* SchedulerService.reschedule_daily_summary                            *)
(* ------------------------------------------------------------------ *)
\* the time zone names the zone database knows, and the names a payload may
\* carry (TelegramScheduleIn.timezone is an unconstrained str)
KnownTimezones == {"UTC"}
Timezones == {"UTC", "Mars/Phobos"}
\* TelegramScheduleIn (settings.py lines 19-23), two hours of the day
TelegramScheduleIn ==
    [enabled : BOOLEAN, hour : {9, 21}, minute : {0}, timezone : Timezones]

\* line 101: CronTrigger(...) raises for a time zone name it cannot resolve
CronTriggerRaises(sched) == sched.timezone \notin KnownTimezones

\* update_schedule lines 45-47: set_setting_json stores the payload and commits
update_schedule_save(c, payload) ==
    /\ sched_req[c].pc = "idle"
    /\ telegram_schedule' = payload
    /\ sched_req' = [sched_req EXCEPT ![c] =
                        [pc |-> "read", sched |-> payload,
                         was |-> [schedule |-> telegram_schedule,
                                  trigger |-> summary_trigger]]]
    /\ UNCHANGED <<now, LAST_ALERT_TIMES, sendVars, hosts, healthVars, rules, runVars,
                   schedVars, sevVars, summary_trigger,
                   engineVars, lifeVars, pipeVars, bootVars>>

\* reschedule_daily_summary lines 82-84: the awaited read of the stored schedule
reschedule_read(c) ==
    /\ sched_req[c].pc = "read"
    /\ sched_req' = [sched_req EXCEPT ![c] =
                        [@ EXCEPT !.pc = "apply", !.sched = telegram_schedule]]
    /\ UNCHANGED <<now, LAST_ALERT_TIMES, sendVars, hosts, healthVars, rules, runVars,
                   schedVars, sevVars, telegram_schedule, summary_trigger,
                   engineVars, lifeVars, pipeVars, bootVars>>

\* the trigger of the job daily_summary after lines 91-117 ran with the schedule
\* read: the job is removed; nothing is added when the schedule is disabled
\* (return at line 99) or when CronTrigger raises at line 101
TriggerAfterReschedule(sched) ==
    IF sched.enabled /\ ~CronTriggerRaises(sched) THEN CronTrigger(sched) ELSE NoTrigger

\* reschedule_daily_summary lines 86-119, which hold no await
reschedule_apply(c) ==
    /\ sched_req[c].pc = "apply"
    /\ summary_trigger' = TriggerAfterReschedule(sched_req[c].sched)
    /\ jobs' = IF summary_trigger' = NoTrigger THEN jobs \ {"daily_summary"}
                ELSE jobs \cup {"daily_summary"}
    /\ sched_req' = [sched_req EXCEPT ![c] = NoSchedReq]
    /\ UNCHANGED <<now, LAST_ALERT_TIMES, sendVars, hosts, healthVars, rules, runVars,
                   req, disable_done, n_updates, sevVars, telegram_schedule,
                   engineVars, lifeVars, pipeVars, bootVars>>

\* the service has started with the default schedule
InitOfSummary == InitSend /\ HealthQuiet /\ RunQuiet /\ SchedQuiet /\ SevQuiet /\ SysQuiet

NextSummary ==
    \/ \E c \in Conns, payload \in TelegramScheduleIn : update_schedule_save(c, payload)
    \/ \E c \in Conns : reschedule_read(c)
    \/ \E c \in Conns : reschedule_apply(c)

SpecSummary == InitOfSummary /\ [][NextSummary]_vars

\* no update_schedule request is in progress
NoReconfiguration == \A c \in Conns : sched_req[c].pc = "idle"

\* C22: once the reconfigurations requested so far have all ended, the job
\* store holds the job daily_summary with the trigger of the stored
\* hour, minute and time zone when the stored schedule is enabled, and holds
\* no such job when it is disabled
C22_SummaryJobMatchesSchedule ==
    NoReconfiguration =>
        IF telegram_schedule.enabled
        THEN /\ "daily_summary" \in jobs
             /\ summary_trigger = CronTrigger(telegram_schedule)
        ELSE /\ "daily_summary" \notin jobs
             /\ summary_trigger = NoTrigger

\* the request on connection c ends in this step with the error of
\* CronTrigger (line 101), which leaves reschedule_daily_summary and
\* update_schedule
UpdateEndsWithError(c) ==
    /\ sched_req[c].pc = "apply" /\ sched_req'[c].pc = "idle"
    /\ sched_req[c].sched.enabled /\ CronTriggerRaises(sched_req[c].sched)

\* C39: an update_schedule request that ends with an error leaves the stored
\* schedule and the trigger of the job daily_summary as they were when the
\* request arrived; and whenever no request is in progress the job is
\* registered with the trigger of the stored schedule when that is enabled
\* and is not registered when it is disabled
C39_FailedUpdateChangesNothing ==
    /\ [][\A c \in Conns :
             UpdateEndsWithError(c) =>
                 /\ telegram_schedule' = sched_req[c].was.schedule
                 /\ summary_trigger' = sched_req[c].was.trigger]_vars
    /\ [](NoReconfiguration =>
             summary_trigger = IF telegram_schedule.enabled
                               THEN CronTrigger(telegram_schedule) ELSE NoTrigger)

(* ------------------------------------------------------------------ *)
(* The trigger engine: the instances of the registered jobs             *)
(* ------------------------------------------------------------------ *)
\* some instance of job id is suspended in the retry delay of _run_rule
Sleeping(id) == \E i \in 1..Len(inst[id]) : inst[id][i].pc = "sleeping"

\* line 208 written with a sleep that does not yield to the event loop
RetryDelayBlocking == "blocking"
\* line 208: await asyncio.sleep(delay) suspends the coroutine of this
\* instance only
RetryDelay == "awaited"

\* the event loop cannot run any other callback or coroutine
LoopBlocked == RetryDelay = "blocking" /\ \E id \in EngineJobs : Sleeping(id)

\* a job store that lets a second instance of a job start
MaxInstancesTwo(id) == 2
\* max_instances of a job: 1 at lines 57 and 114, and the scheduler's default
\* of 1 for the rule jobs, which line 164 registers without the argument
MaxInstances(id) == 1

\* the instance the scheduler starts when the trigger of job id fires
NewInstance(id) ==
    [pc |-> "running", during |-> {r \in RuleJobs \ {id} : Sleeping(r)},
     finished |-> {}, after |-> failed]

TotalFired ==
    triggers["automation-1"].fired + triggers["automation-2"].fired
        + triggers["health_check"].fired + triggers["daily_summary"].fired

\* the trigger of job id fires: the scheduler starts an instance of the job
\* (job_wrapper, health_job or summary_job) unless max_instances of them run
trigger(id) ==
    /\ scheduler_state = "running"
    /\ id \in jobs
    /\ TotalFired < MaxTriggers
    /\ IF LoopBlocked
       THEN /\ triggers' = [triggers EXCEPT ![id].fired = @ + 1]
            /\ UNCHANGED inst
       ELSE IF Len(inst[id]) < MaxInstances(id)
       THEN /\ triggers' = [triggers EXCEPT ![id].fired = @ + 1]
            /\ inst' = [inst EXCEPT ![id] = Append(@, NewInstance(id))]
       ELSE /\ triggers' = [triggers EXCEPT ![id].fired = @ + 1, ![id].refused = @ + 1]
            /\ UNCHANGED inst
    /\ UNCHANGED <<now, LAST_ALERT_TIMES, sendVars, hosts, healthVars, rules, runVars,
                   schedVars, sevVars, summaryVars, scheduler_state, failed, lifeVars, pipeVars, bootVars>>

\* _run_rule lines 201-208: an attempt of the instance ended in FAIL with
\* attempts left, and the instance suspends in the retry delay
instance_sleep(id, i) ==
    /\ id \in RuleJobs /\ i \in 1..Len(inst[id])
    /\ inst[id][i].pc = "running"
    /\ ~LoopBlocked
    /\ inst' = [inst EXCEPT ![id][i] = [@ EXCEPT !.pc = "sleeping", !.finished = {}]]
    /\ UNCHANGED <<now, LAST_ALERT_TIMES, sendVars, hosts, healthVars, rules, runVars,
                   schedVars, sevVars, summaryVars, scheduler_state, triggers, failed,
                   lifeVars, pipeVars, bootVars>>

\* line 208: the retry delay is over and the instance goes on
instance_wake(id, i) ==
    /\ i \in 1..Len(inst[id])
    /\ inst[id][i].pc = "sleeping"
    /\ inst' = [j \in EngineJobs |->
                  [k \in 1..Len(inst[j]) |->
                      IF j = id /\ k = i THEN [inst[j][k] EXCEPT !.pc = "running"]
                      ELSE [inst[j][k] EXCEPT !.during = @ \ {id}]]]
    /\ UNCHANGED <<now, LAST_ALERT_TIMES, sendVars, hosts, healthVars, rules, runVars,
                   schedVars, sevVars, summaryVars, scheduler_state, triggers, failed,
                   lifeVars, pipeVars, bootVars>>

\* a job whose instance raised stops the scheduler
SchedulerStopsOnRaise(raised) == IF raised THEN "shutdown" ELSE scheduler_state
\* the state of the scheduler after an instance of a job ended: an exception
\* that leaves job_wrapper (line 162), health_job (lines 47-50) or summary_job
\* ends in the scheduler's executor, which logs it
SchedulerAfterJob(raised) == scheduler_state

\* the instances without the one at position i
WithoutInstance(seq, i) == SubSeq(seq, 1, i - 1) \o SubSeq(seq, i + 1, Len(seq))

\* an instance of job id ends: its coroutine returns, or raises the Store
\* failure that execute_and_record (lines 262-264) or check_all_hosts let through
instance_end(id, i, raised) ==
    /\ i \in 1..Len(inst[id])
    /\ inst[id][i].pc = "running"
    /\ ~LoopBlocked
    /\ inst' = [j \in EngineJobs |->
                  IF j = id THEN WithoutInstance(inst[j], i)
                  ELSE [k \in 1..Len(inst[j]) |->
                          IF j \in inst[id][i].during /\ inst[j][k].pc = "sleeping"
                          THEN [inst[j][k] EXCEPT !.finished = @ \cup {id}]
                          ELSE inst[j][k]]]
    /\ failed' = IF raised THEN failed \cup {id} ELSE failed
    /\ scheduler_state' = SchedulerAfterJob(raised)
    /\ UNCHANGED <<now, LAST_ALERT_TIMES, sendVars, hosts, healthVars, rules, runVars,
                   schedVars, sevVars, summaryVars, triggers, lifeVars, pipeVars, bootVars>>

\* a serving application of two enabled rules; all four jobs are registered
InitOfEngine ==
    /\ InitSend /\ HealthQuiet /\ SevQuiet /\ SysQuiet
    /\ rules = [r \in AllRules |-> NewRule(TRUE, TRUE, 2, TRUE)]
    /\ rule_run = [r \in Rules |-> NoRun]
    /\ action_runs = <<>>
    /\ alerts = <<>>
    /\ run_calls = 0
    /\ manual_calls = 0
    /\ jobs = EngineJobs
    /\ req = [c \in Conns |-> NoReq]
    /\ disable_done = [r \in AllRules |-> FALSE]
    /\ n_updates = 0

NextEngine ==
    \/ \E id \in EngineJobs : trigger(id)
    \/ \E id \in EngineJobs, i \in 1..2 : instance_sleep(id, i)
    \/ \E id \in EngineJobs, i \in 1..2 : instance_wake(id, i)
    \/ \E id \in EngineJobs, i \in 1..2, raised \in BOOLEAN : instance_end(id, i, raised)

SpecEngine == InitOfEngine /\ [][NextEngine]_vars

(* ------------------------------------------------------------------ *)
(* Properties of the trigger engine                                     *)
(* ------------------------------------------------------------------ *)
\* the trigger of job id fires in this step
Fires(id) == triggers'[id].fired = triggers[id].fired + 1

\* C24: no job ever has two running instances, and a firing of the trigger
\* of a job that has an instance running, or suspended in its retry delay,
\* starts no instance
C24_AtMostOneInstance ==
    [][\A id \in EngineJobs :
          /\ Len(inst'[id]) <= 1
          /\ (Fires(id) /\ inst[id] # <<>>) => inst'[id] = inst[id]]_vars

\* C24 witness: the trigger of a rule job was refused, and so was that of
\* the health check job, the one instance of the rule job being suspended in
\* its retry delay
C24_Witness ==
    /\ triggers["automation-1"].refused >= 1
    /\ Len(inst["automation-1"]) = 1 /\ Sleeping("automation-1")
    /\ triggers["health_check"].refused >= 1

C30_DelayBlocksNoOtherJob ==
    /\ [][\A id \in EngineJobs :
             (Fires(id) /\ inst[id] = <<>> /\ \E r \in RuleJobs \ {id} : Sleeping(r))
                 => Len(inst'[id]) = 1 /\ inst'[id][1].pc = "running"]_vars
    /\ [](\A id \in EngineJobs :
             (Len(inst[id]) = 1 /\ inst[id][1].pc = "running"
                 /\ \E r \in RuleJobs \ {id} : Sleeping(r))
                 => ENABLED instance_end(id, 1, FALSE))

\* C30 witness: during one retry delay of the job of rule 1, instances of the
\* job of rule 2, of the health check and of the daily summary have started
\* and run to completion
C30_Witness ==
    /\ Len(inst["automation-1"]) = 1 /\ Sleeping("automation-1")
    /\ inst["automation-1"][1].finished = {"automation-2", "health_check", "daily_summary"}

(* ------------------------------------------------------------------ *)
(* main.lifespan: SchedulerService.start, load_jobs and stop            *)
(* ------------------------------------------------------------------ *)
\* stored schedules: a valid one, one of a single field, one with a bad field
Schedules == {<<"*/10", "*", "*", "*", "*">>, <<"hourly">>, <<"61", "*", "*", "*", "*">>}

\* what the steps of startup and shutdown leave alone
nonLifeVars == <<now, LAST_ALERT_TIMES, sendVars, hosts, healthVars, rules, runVars,
                 req, disable_done, n_updates, sevVars, telegram_schedule, sched_req,
                 triggers, failed, pipeVars, bootVars>>

\* lifespan line 33 and start line 37: self.scheduler.start()
lifespan_start ==
    /\ life.phase = "created"
    /\ scheduler_state' = "running"
    /\ life' = [life EXCEPT !.phase = "started"]
    /\ UNCHANGED <<nonLifeVars, jobs, summary_trigger, inst, db_engine>>

\* the ids 1..n that are in the set S, in increasing order
RECURSIVE IdsUpTo(_, _)
IdsUpTo(n, S) ==
    IF n = 0 THEN <<>>
    ELSE IF n \in S THEN Append(IdsUpTo(n - 1, S), n) ELSE IdsUpTo(n - 1, S)

\* load_jobs lines 123-128: select the ids of the enabled rules
load_jobs_select ==
    /\ life.phase = "started"
    /\ life' = [life EXCEPT !.phase = "loading",
                            !.todo = IdsUpTo(2, {r \in AllRules :
                                                   rules[r].exists /\ rules[r].enabled})]
    /\ UNCHANGED <<nonLifeVars, jobs, summary_trigger, scheduler_state, inst, db_engine>>

\* load_jobs line 131 and add_job lines 137-152: the job of the next rule is
\* removed, the rule and its host are read
load_add_job_get ==
    /\ life.phase = "loading" /\ life.todo # <<>>
    /\ LET r == Head(life.todo)
       IN  /\ jobs' = JobStoreRemove(JobId[r])
           /\ life' = IF rules[r].exists /\ rules[r].enabled
                       THEN [life EXCEPT !.phase = "add_job", !.rule = r]
                       ELSE [life EXCEPT !.todo = Tail(@)]
    /\ UNCHANGED <<nonLifeVars, summary_trigger, scheduler_state, inst, db_engine>>

\* add_job lines 154-167: the schedule is parsed and the job is added; when
\* add_job raises, so do load_jobs and start, and lifespan (lines 36-37)
\* goes on without the jobs that start had yet to register
load_add_job_add ==
    /\ life.phase = "add_job"
    /\ LET r == life.rule
           outcome == AddJobOutcome(r)
       IN  /\ jobs' = IF outcome = "added" THEN JobStoreAdd(JobId[r]) ELSE jobs
           /\ life' = IF outcome = "raised"
                       THEN [life EXCEPT !.phase = "ready", !.rule = 0, !.start_raised = TRUE]
                       ELSE [life EXCEPT !.phase = "loading", !.rule = 0, !.todo = Tail(@)]
    /\ UNCHANGED <<nonLifeVars, summary_trigger, scheduler_state, inst, db_engine>>

\* start lines 43-62: the health check job is registered
start_health_job ==
    /\ life.phase = "loading" /\ life.todo = <<>>
    /\ jobs' = jobs \cup {"health_check"}
    /\ life' = [life EXCEPT !.phase = "system"]
    /\ UNCHANGED <<nonLifeVars, summary_trigger, scheduler_state, inst, db_engine>>

\* start lines 67-70: reschedule_daily_summary with the stored schedule; an
\* exception is logged
start_summary_job ==
    /\ life.phase = "system"
    /\ summary_trigger' = TriggerAfterReschedule(telegram_schedule)
    /\ jobs' = IF summary_trigger' = NoTrigger THEN jobs \ {"daily_summary"}
                ELSE jobs \cup {"daily_summary"}
    /\ life' = [life EXCEPT !.phase = "ready"]
    /\ UNCHANGED <<nonLifeVars, scheduler_state, inst, db_engine>>

\* lifespan lines 34-40: startup is over and the application serves requests
lifespan_yield ==
    /\ life.phase = "ready"
    /\ life' = [life EXCEPT !.phase = "serving"]
    /\ UNCHANGED <<nonLifeVars, jobs, summary_trigger, scheduler_state, inst, db_engine>>

\* an operator request is served: a manual execution
serve_run_action(h, driver_ok, posted) ==
    /\ life.phase = "serving"
    /\ run_action(h, driver_ok, posted)

\* stop written without the finally: shutdown is skipped when the removal raises
ShutdownUnlessRemoveRaised(remove_raises) == ~remove_raises
\* stop lines 74-77: scheduler.shutdown() is in the finally of the removal
ShutdownCalled(remove_raises) == TRUE

\* scheduler.remove_all_jobs()
remove_all_jobs == {}

\* lifespan lines 41-47 and stop lines 72-77, which hold no await:
\* remove_all_jobs, then shutdown, which cancels the running instances; an
\* exception of either is logged by lifespan
scheduler_stop(remove_raises, shutdown_raises) ==
    /\ life.phase = "serving"
    /\ jobs' = IF remove_raises THEN jobs ELSE remove_all_jobs
    /\ summary_trigger' = IF remove_raises THEN summary_trigger ELSE NoTrigger
    /\ LET called == ShutdownCalled(remove_raises)
           done == called /\ ~shutdown_raises
       IN  /\ scheduler_state' = IF done THEN "shutdown" ELSE scheduler_state
           /\ inst' = IF done THEN [id \in EngineJobs |-> <<>>] ELSE inst
           /\ life' = [life EXCEPT
                  !.phase = "stopped",
                  !.log = <<[step |-> "remove_all_jobs", ok |-> ~remove_raises]>>
                          \o (IF called THEN <<[step |-> "shutdown", ok |-> ~shutdown_raises]>>
                              ELSE <<>>)]
    /\ UNCHANGED <<nonLifeVars, db_engine>>

\* lifespan lines 52-56: await engine.dispose(); an exception is logged
engine_dispose(raises) ==
    /\ life.phase = "stopped"
    /\ db_engine' = IF raises THEN db_engine ELSE "disposed"
    /\ life' = [life EXCEPT !.phase = "down",
                            !.log = Append(@, [step |-> "dispose", ok |-> ~raises])]
    /\ UNCHANGED <<nonLifeVars, jobs, summary_trigger, scheduler_state, inst>>

\* the process before lifespan runs start: the tables exist (init_db), two
\* stored rules of any schedule, enabled or not, an empty job store
InitOfLife ==
    /\ InitSend /\ HealthQuiet /\ SevQuiet
    /\ rules \in [AllRules -> {[NewRule(e, TRUE, 2, TRUE) EXCEPT !.schedule = sch] :
                                 e \in BOOLEAN, sch \in Schedules}]
    /\ rule_run = [r \in Rules |-> NoRun]
    /\ action_runs = <<>>
    /\ alerts = <<>>
    /\ run_calls = 0
    /\ manual_calls = 0
    /\ jobs = {}
    /\ req = [c \in Conns |-> NoReq]
    /\ disable_done = [r \in AllRules |-> FALSE]
    /\ n_updates = 0
    /\ telegram_schedule = DEFAULT_SCHEDULE
    /\ summary_trigger = NoTrigger
    /\ sched_req = [c \in Conns |-> NoSchedReq]
    /\ scheduler_state = "stopped"
    /\ inst = [id \in EngineJobs |-> <<>>]
    /\ triggers = [id \in EngineJobs |-> [fired |-> 0, refused |-> 0]]
    /\ failed = {}
    /\ db_engine = "open"
    /\ life = [Serving EXCEPT !.phase = "created"]
    /\ pipe = NoPipe
    /\ boot = NoBoot

NextLife ==
    \/ lifespan_start
    \/ load_jobs_select
    \/ load_add_job_get
    \/ load_add_job_add
    \/ start_health_job
    \/ start_summary_job
    \/ lifespan_yield
    \/ \E id \in EngineJobs : trigger(id)
    \/ \E h \in Hosts, driver_ok \in BOOLEAN : serve_run_action(h, driver_ok, TRUE)
    \/ \E remove_raises \in BOOLEAN, shutdown_raises \in BOOLEAN :
          scheduler_stop(remove_raises, shutdown_raises)
    \/ \E raises \in BOOLEAN : engine_dispose(raises)

SpecLife == InitOfLife /\ [][NextLife]_vars

(* ------------------------------------------------------------------ *)
(* Properties of startup and shutdown                                   *)
(* ------------------------------------------------------------------ *)
\* the rules that load_jobs has to register: enabled, with a valid schedule
Loadable == {r \in AllRules : /\ rules[r].exists /\ rules[r].enabled
                              /\ ~from_crontab_raises(rules[r].schedule)}

\* every rule that load_jobs has to register has its job
AllLoaded == \A r \in Loadable : JobId[r] \in jobs

\* C23: a rule whose schedule is invalid never gets a job, its registration
\* raises nothing out of start, and once load_jobs has gone through the
\* enabled rules every one of them that has a valid schedule has its job
C23_InvalidScheduleIsSkipped ==
    /\ \A r \in AllRules : from_crontab_raises(rules[r].schedule) => JobId[r] \notin jobs
    /\ ~life.start_raised
    /\ life.phase \in {"system", "ready", "serving"} => AllLoaded

\* C23 witness: load_jobs went through rule 1, enabled with an invalid
\* schedule, and then registered the job of rule 2
C23_Witness ==
    /\ life.phase = "system"
    /\ rules[1].enabled /\ from_crontab_raises(rules[1].schedule)
    /\ 2 \in Loadable /\ jobs = {JobId[2], "health_check"}

\* C26: shutdown calls remove_all_jobs, then scheduler.shutdown, then
\* engine.dispose, each whatever the outcome of the ones before; the
\* scheduler is shut down and the engine disposed of only after the jobs
\* were removed, unless their removal failed
C26_JobsRemovedThenReleased ==
    /\ life.phase \in {"stopped", "down"} =>
          /\ Len(life.log) >= 2
          /\ life.log[1].step = "remove_all_jobs" /\ life.log[2].step = "shutdown"
    /\ life.phase = "down" => Len(life.log) = 3 /\ life.log[3].step = "dispose"
    /\ scheduler_state = "shutdown" => (life.log[1].ok => jobs = {})
    /\ db_engine = "disposed" =>
          /\ life.log[1].ok => jobs = {}
          /\ life.log[2].ok => scheduler_state = "shutdown"

\* C26 witness: the removal of the jobs failed, the scheduler was shut down
\* and the engine disposed of all the same, and shutdown is complete
C26_Witness ==
    /\ life.phase = "down"
    /\ ~life.log[1].ok /\ jobs # {}
    /\ scheduler_state = "shutdown" /\ db_engine = "disposed"

\* C27: the trigger of a job fires, or an operator request is served, only
\* when every enabled rule with a valid schedule has its job registered
C27_NoWorkBeforeRulesLoaded ==
    [][((\E id \in EngineJobs : Fires(id)) \/ manual_calls' # manual_calls)
           => AllLoaded]_vars

(* ------------------------------------------------------------------ *)
(* action_runner.execute_and_record, step by step                       *)
(* ------------------------------------------------------------------ *)
\* the actions of the catalogue that query the modem
ActionKeys == {"CONSULTAR_SALDO", "VER_LOGS_USSD"}
\* the answers of the modem: none, or a text with its readings
Ussds == {NoUssd} \cup [latest : {TRUE}, datos_mb : Readings,
                        validos_dias : Readings, insuf : BOOLEAN]
\* the alert kind of a tier (line 320: "sev_" + sev.lower())
SevKind == [CRITICO |-> "sev_critico", ALTA |-> "sev_alta", MEDIA |-> "sev_media"]
SevKinds == {"sev_critico", "sev_alta", "sev_media"}

\* result.get("parsed") of a driver for an action other than VER_LOGS_USSD:
\* the TP-Link driver parses the answer of CONSULTAR_SALDO with USSD_PARSE_RE,
\* which matches only a text with data, days and balance (_parse_ussd_line,
\* lines 126-157); the MikroTik driver returns the raw answer alone
DriverParsed(router_type, ussd) ==
    IF /\ NormalizedType(router_type) = "TP_LINK_OPENWRT_SSH"
       /\ ussd.latest /\ ussd.datos_mb # NoEntry /\ ussd.validos_dias # NoEntry
    THEN [ussd_latest |-> FALSE, ok_parse |-> TRUE,
          datos_mb |-> ussd.datos_mb, validos_dias |-> ussd.validos_dias]
    ELSE NoParsed

\* lines 214-225: for VER_LOGS_USSD the latest USSD message and the fields
\* parse_ussd_fields_from_message finds in it (ok_parse when it finds any)
UssdParsed(ussd) ==
    [ussd_latest |-> ussd.latest,
     ok_parse |-> ussd.latest /\ (ussd.datos_mb # NoEntry \/ ussd.validos_dias # NoEntry),
     datos_mb |-> ussd.datos_mb, validos_dias |-> ussd.validos_dias]

\* lines 210-239: response_parsed after the driver call
ResponseParsed(router_type, action_key, ussd, driver_ok) ==
    IF ~driver_ok THEN NoParsed
    ELSE IF action_key = "VER_LOGS_USSD" THEN UssdParsed(ussd)
    ELSE DriverParsed(router_type, ussd)

\* line 269: the test that guards the USSD alerts
UssdAlertsDue(p) ==
    p.telegram_enabled /\ p.status = "SUCCESS" /\ p.action_key = "VER_LOGS_USSD"

\* lines 269-332: the kinds of the send_alert calls of an invocation, in order
PipelineKinds(p, thresholds) ==
    LET tier == evaluate_severity(p.parsed.datos_mb, p.parsed.validos_dias, thresholds)
    IN  (IF UssdAlertsDue(p) /\ p.parsed.ussd_latest THEN <<"ussd_latest">> ELSE <<>>)
        \o (IF UssdAlertsDue(p) /\ p.ussd.insuf THEN <<"low_balance">> ELSE <<>>)
        \o (IF UssdAlertsDue(p) /\ p.parsed.ok_parse /\ tier # "None"
            THEN <<SevKind[tier]>> ELSE <<>>)
        \o (IF NoResponseDue(p.telegram_enabled, p.status, p.attempt, p.max_attempts)
            THEN <<"no_response">> ELSE <<>>)

\* lines 196-241: the driver is resolved and called; status and
\* response_parsed are set
pipeline_execute(driver_ok) ==
    /\ pipe.pc = "called"
    /\ pipe' = [pipe EXCEPT !.pc = "executed", !.status = RunStatus(driver_ok),
                            !.parsed = ResponseParsed(hosts[pipe.host].router_type,
                                                      pipe.action_key, pipe.ussd, driver_ok)]
    /\ run_calls' = run_calls + 1
    /\ UNCHANGED <<now, LAST_ALERT_TIMES, sendVars, hosts, healthVars, rules, rule_run,
                   action_runs, alerts, manual_calls, schedVars, sevVars,
                   summaryVars, engineVars, lifeVars, bootVars>>

\* a commit that raises is swallowed and the invocation goes on
PersistFailureSwallowed(commit_ok) == "persisted"

\* lines 262-264: session.add, commit and refresh run outside any try; a
\* commit that raises ends the invocation with that exception
PersistOutcome(commit_ok) == IF commit_ok THEN "persisted" ELSE "raised"

\* lines 247-264: the ActionRun is built and committed
pipeline_persist(commit_ok) ==
    /\ pipe.pc = "executed"
    /\ pipe' = [pipe EXCEPT !.pc = PersistOutcome(commit_ok)]
    /\ action_runs' = IF commit_ok
                      THEN Append(action_runs,
                                  RunRow(pipe.host, 0, 0, pipe.attempt, pipe.status = "SUCCESS"))
                      ELSE action_runs
    /\ UNCHANGED <<now, LAST_ALERT_TIMES, sendVars, hosts, healthVars, rules, rule_run,
                   alerts, run_calls, manual_calls, schedVars, sevVars,
                   summaryVars, engineVars, lifeVars, bootVars>>

\* lines 269-334: the send_alert calls, then return run; posted holds the
\* kinds for which the Notifier's post returns
pipeline_alerts(posted) ==
    /\ pipe.pc = "persisted"
    /\ LET kinds == PipelineKinds(pipe, sev.thresholds)
           h == pipe.host
           sent(k) == \E i \in 1..Len(kinds) : kinds[i] = k
       IN  /\ posted \subseteq {kinds[i] : i \in 1..Len(kinds)}
           /\ alerts' = alerts \o
                  [i \in 1..Len(kinds) |->
                      [key |-> <<h, kinds[i]>>, rule |-> 0, firing |-> 0,
                       attempt |-> pipe.attempt, of |-> pipe.max_attempts,
                       called |-> SendResult(<<h, kinds[i]>>, now, kinds[i] \in posted)
                                    # "suppressed"]]
           /\ LAST_ALERT_TIMES' =
                  [k \in AlertKeys |->
                      IF k[1] = h /\ sent(k[2]) /\ SendResult(k, now, k[2] \in posted) = "ok"
                      THEN now ELSE LAST_ALERT_TIMES[k]]
    /\ pipe' = [pipe EXCEPT !.pc = "returned"]
    /\ UNCHANGED <<now, sendVars, hosts, healthVars, rules, rule_run, action_runs,
                   run_calls, manual_calls, schedVars, sevVars,
                   summaryVars, engineVars, lifeVars, bootVars>>

\* one invocation of execute_and_record for host 1, of a registered router
\* type, with any arguments a manual execution or a rule job passes
InitOfPipeline ==
    /\ InitSend /\ RunQuiet /\ SchedQuiet /\ SevQuiet
    /\ SummaryQuiet /\ EngineQuiet /\ LifeQuiet /\ BootQuiet
    /\ hosts \in [Hosts -> {NewHost(rt, n) : rt \in DriverRegistry, n \in BOOLEAN}]
    /\ host_health = [h \in Hosts |-> <<>>]
    /\ health_raised = FALSE
    /\ batch = NoBatch
    /\ pipe \in [pc : {"called"}, host : Hosts, action_key : ActionKeys,
                 attempt : 1..2, max_attempts : {2}, telegram_enabled : BOOLEAN,
                 ussd : Ussds, status : {"unset"}, parsed : {NoParsed}]

NextPipeline ==
    \/ \E driver_ok \in BOOLEAN : pipeline_execute(driver_ok)
    \/ \E commit_ok \in BOOLEAN : pipeline_persist(commit_ok)
    \/ \E posted \in SUBSET (SevKinds \cup {"ussd_latest", "low_balance", "no_response"}) :
           pipeline_alerts(posted)

SpecPipeline == InitOfPipeline /\ [][NextPipeline]_vars

\* the send_alert calls of the invocation, and its sev_<tier> calls
SevAlerts == {i \in 1..Len(alerts) : alerts[i].key[2] \in SevKinds}
\* the tier the classifier returns for the parsed result of the invocation
PipeTier ==
    evaluate_severity(pipe.parsed.datos_mb, pipe.parsed.validos_dias, sev.thresholds)

\* C31: an invocation that has returned dispatched a sev_<tier> alert exactly
\* when alerts were on, the outcome was SUCCESS, the parsed result carried
\* the severity fields and the classifier returned a tier for them, and the
\* kind names that tier; with alerts off it dispatched no alert at all
C31_SeverityAlertIffTier ==
    pipe.pc = "returned" =>
        /\ (SevAlerts # {}) <=>
               (/\ pipe.telegram_enabled /\ pipe.status = "SUCCESS"
                /\ pipe.parsed.ok_parse /\ PipeTier # "None")
        /\ \A i \in SevAlerts : alerts[i].key[2] = SevKind[PipeTier]
        /\ (~pipe.telegram_enabled => alerts = <<>>)

\* C36: alerts are dispatched only by an invocation whose ActionRun has been
\* persisted; an invocation whose commit failed has ended with that exception
\* at its caller and has dispatched no alert
C36_AlertsOnlyAfterPersist ==
    /\ alerts # <<>> => (Len(action_runs) = 1 /\ pipe.pc = "returned")
    /\ (action_runs = <<>> /\ pipe.pc \notin {"called", "executed"})
           => (pipe.pc = "raised" /\ alerts = <<>>)

\* C36 witness: the commit of an invocation that had alerts to dispatch failed
C36_Witness ==
    /\ pipe.pc = "raised"
    /\ PipelineKinds(pipe, sev.thresholds) # <<>>
    /\ action_runs = <<>> /\ alerts = <<>>

\* C37: no alert about a host whose notify_enabled flag is off reaches the
\* Notifier
C37_NoAlertWhileFlagOff ==
    \A i \in 1..Len(alerts) :
        alerts[i].called => hosts[alerts[i].key[1]].notify_enabled

====
